---- MODULE Spec2Model ----
(***************************************************************************)
(* A model of the open-addressing hash table of src/hash-table.hpp         *)
(* (template class HashTable<Key, T, Hash, KeyEqual>), instantiated with   *)
(* Key = an unsigned integer type, T = int, Hash = the identity hash of    *)
(* integers and KeyEqual = std::equal_to.                                  *)
(*                                                                         *)
(* A table is a record [capacity, len, items]; items is a function from    *)
(* 0..capacity-1 to slots; a slot is None (std::nullopt) or <<key, value>>.*)
(* Every method is a pure operator from a table (and arguments) to a       *)
(* record holding the table afterwards, the returned value and an outcome  *)
(* st: "ok" (the call returned), "hang" (the call loops for ever) or       *)
(* "fault" (the call left the slot array: an out-of-bounds access).        *)
(*                                                                         *)
(* The last sections model the C table of src/ht-hash.c (ht_hash_table     *)
(* with string keys and values) in the same way.                           *)
(***************************************************************************)
EXTENDS Integers, Sequences, FiniteSets, TLC

\* ------------------------------------------------------------------ bounds

\* largest bucket_count / min_capacity argument passed to a constructor,
\* reserve or rehash, and number of slots cbegin(n) is asked for
MaxBucket == 4
\* longest initializer list
MaxList == 1
\* an inserting call is made only when the table holds at most MaxLen pairs
\* after it
MaxLen == 2

\* The keys the callers use. 1 and 22 hash to the same slot at every capacity
\* from 2 to 32 (slot 1, 2, 4, 9, 19), so each lies on the other's probe
\* sequence.
Keys == {1, 22}
\* The mapped values; 0 is T{}, the value operator[] inserts.
Values == {0, 1}

\* the keys of the runs that fill a table of 2 * MaxBucket buckets up to its
\* resize threshold
FillKeys == 1..(2 * MaxBucket)

\* ------------------------------------------------------ slots and tables

None == <<>>
Some(key, value) == <<key, value>>
has_value(slot) == slot # None

\* HtItem[n], value-initialised: n slots without a value
NewItems(n) == [i \in 0..(n - 1) |-> None]

\* F applied to the value of v, v computed once
Once(v, F(_)) == CHOOSE y \in {F(x) : x \in {v}} : TRUE

\* the fields of a table
MkTable(cap, length, its) == [capacity |-> cap, len |-> length, items |-> its]

\* ------------------------------------------------ 64-bit word arithmetic

\* an unsigned 64-bit word is eight bytes, least significant first
Limbs(x) == [i \in 0..7 |-> IF i < 4 THEN (x \div (256 ^ i)) % 256 ELSE 0]

\* 11400714819323198485 = 0x9E3779B97F4A7C15
FIB_MULT == [i \in 0..7 |-> <<21, 124, 74, 127, 185, 121, 55, 158>>[i + 1]]
INITIAL_CAPACITY == 32

\* column c of the schoolbook product a * b, without carries
MulColumn(a, b, c) ==
    LET RECURSIVE Sum(_)
        Sum(i) == IF i > c THEN 0 ELSE a[i] * b[c - i] + Sum(i + 1)
    IN Sum(0)

\* a * b modulo 2^64: the columns 0..7 with their carries, the rest dropped
MulMod64(a, b) ==
    LET RECURSIVE Carry(_)
        Carry(c) == IF c = 0 THEN 0
                    ELSE (MulColumn(a, b, c - 1) + Carry(c - 1)) \div 256
    IN [c \in 0..7 |-> (MulColumn(a, b, c) + Carry(c)) % 256]

\* w >> s for 40 <= s <= 63 (the result has at most 24 bits)
Shr64(w, s) == (w[7] * 65536 + w[6] * 256 + w[5]) \div (2 ^ (s - 40))

RECURSIVE BitLen(_)
BitLen(x) == IF x = 0 THEN 0 ELSE 1 + BitLen(x \div 2)

\* __builtin_clzll / std::countl_zero of a non-zero 64-bit word
countl_zero(x) == 64 - BitLen(x)

RECURSIVE BitAnd(_, _)
BitAnd(x, y) ==
    IF x = 0 \/ y = 0 THEN 0
    ELSE (x % 2) * (y % 2) + 2 * BitAnd(x \div 2, y \div 2)

RECURSIVE BitOr(_, _)
BitOr(x, y) ==
    IF x = 0 THEN y
    ELSE IF y = 0 THEN x
    ELSE (IF x % 2 = 1 \/ y % 2 = 1 THEN 1 ELSE 0) + 2 * BitOr(x \div 2, y \div 2)

\* a bit_ceil that rounds nothing
bit_ceil_unrounded(x) == x

\* the pre-C++20 bit_ceil: x - 1 smeared to the right, plus one; 0 - 1 wraps
\* to all ones and all ones + 1 wraps to 0
bit_ceil(x) ==
    IF x = 0 THEN 0
    ELSE LET x0 == x - 1
             x1 == BitOr(x0, x0 \div 2)
             x2 == BitOr(x1, x1 \div 4)
             x3 == BitOr(x2, x2 \div 16)
             x4 == BitOr(x3, x3 \div 256)
             x5 == BitOr(x4, x4 \div 65536)
         IN x5 + 1

Max(x, y) == IF x >= y THEN x ELSE y

\* ------------------------------------------------------------- the hasher

\* Hash: std::hash of an integer is the identity
hashf(val) == val

\* KeyEqual: std::equal_to
cmp(a, b) == a = b

\* hashf(val) * FIB_MULT for every key
Mixed == [k \in Keys \cup FillKeys |-> MulMod64(Limbs(hashf(k)), FIB_MULT)]

\* An index outside every slot array.
OutOfBounds == -1 - 0

\* What a right shift of a 64-bit word by 64 (undefined behaviour) yields:
\* 0 where the shifter clears the word, or the unshifted word where the
\* count is taken modulo 64, which for a non-zero key is past every array.
ShiftUB == {0, OutOfBounds}

\* HashTable::hash: the top log2(cap) bits of hashf(val) * FIB_MULT;
\* ub is the outcome of the shift when its count is 64 (cap = 1)
hash(val, cap, ub) ==
    LET shift == countl_zero(cap) + 1
    IN IF shift >= 64 THEN ub ELSE Shr64(Mixed[val], shift)

\* ------------------------------------------------------------- iterators

\* iterator(HtItem* item): a handle to one slot; item and end are slot
\* indices, capacity standing for the address one past the array
iterator(item) == [item |-> item, end |-> item]

\* iterator::operator==
iterator_eq(a, b) == a.item = b.item /\ a.end = b.end

\* const_iterator::operator==
const_iterator_eq(a, b) == a.item = b.item /\ a.item = b.end

\* HashTable::end, HashTable::cend
end(t) == iterator(t.capacity)

\* What reading has_value() of a slot outside the array (undefined
\* behaviour: one past the end, or through the null pointer of a table
\* without array) leads to: the read yields some byte and the loop goes on
\* to its pointer test, or the access faults.
ReadUB == {"benign", "fault"}

\* --------------------------------------------------------- probe engine

\* the loop of HashTable::index_of from slot index on, n probes done;
\* attempts is never incremented, so the test attempts > capacity never
\* ends the loop: a walk over capacity occupied slots without the key
\* repeats for ever
RECURSIVE index_of_loop(_, _, _, _)
index_of_loop(t, key, index, n) ==
    LET attempts == 0
    IN IF ~has_value(t.items[index])
       THEN [first |-> FALSE, second |-> index, st |-> "ok"]
       ELSE IF cmp(t.items[index][1], key)
       THEN [first |-> TRUE, second |-> index, st |-> "ok"]
       ELSE IF attempts > t.capacity
       THEN [first |-> FALSE, second |-> BitAnd(index + 1, t.capacity - 1), st |-> "ok"]
       ELSE IF n + 1 >= t.capacity
       THEN [first |-> FALSE, second |-> index, st |-> "hang"]
       ELSE index_of_loop(t, key, BitAnd(index + 1, t.capacity - 1), n + 1)

\* HashTable::index_of: (contains, index)
index_of(t, key, ub) ==
    IF t.capacity = 0 THEN [first |-> FALSE, second |-> 0, st |-> "ok"]
    ELSE LET index == hash(key, t.capacity, ub)
         IN IF index \notin DOMAIN t.items
            THEN [first |-> FALSE, second |-> index, st |-> "fault"]
            ELSE index_of_loop(t, key, index, 0)

\* the loop of HashTable::inner_insert: the first slot without a value from
\* index on; an array without such a slot is walked for ever
RECURSIVE inner_insert_loop(_, _, _, _)
inner_insert_loop(its, cap, index, n) ==
    IF ~has_value(its[index]) THEN [index |-> index, st |-> "ok"]
    ELSE IF n + 1 >= cap THEN [index |-> index, st |-> "hang"]
    ELSE inner_insert_loop(its, cap, BitAnd(index + 1, cap - 1), n + 1)

\* HashTable::inner_insert: pair goes to the first free slot of its probe
\* sequence, without any comparison of keys
inner_insert(its, cap, pair, ub) ==
    LET home == hash(pair[1], cap, ub)
    IN IF home \notin DOMAIN its
       THEN [items |-> its, index |-> home, st |-> "fault"]
       ELSE LET r == inner_insert_loop(its, cap, home, 0)
            IN IF r.st # "ok"
               THEN [items |-> its, index |-> r.index, st |-> r.st]
               ELSE [items |-> [its EXCEPT ![r.index] = pair],
                     index |-> r.index, st |-> "ok"]

\* ---------------------------------------------------------- resize engine

\* the loop of HashTable::reserve_exact from old slot i on
RECURSIVE reserve_exact_loop(_, _, _, _, _, _)
reserve_exact_loop(old_items, old_cap, new_items, new_cap, i, ub) ==
    IF i >= old_cap THEN [items |-> new_items, st |-> "ok"]
    ELSE IF ~has_value(old_items[i])
    THEN reserve_exact_loop(old_items, old_cap, new_items, new_cap, i + 1, ub)
    ELSE LET r == inner_insert(new_items, new_cap, old_items[i], ub)
         IN IF r.st # "ok" THEN [items |-> new_items, st |-> r.st]
            ELSE reserve_exact_loop(old_items, old_cap, r.items, new_cap, i + 1, ub)

\* reserve_exact with an array of twice the capacity asked for
reserve_exact_twice(t, old_cap, new_cap, ub) ==
    LET r == reserve_exact_loop(t.items, old_cap, NewItems(new_cap * 2), new_cap * 2, 0, ub)
    IN IF r.st # "ok" THEN [t |-> t, st |-> r.st]
       ELSE [t |-> MkTable(new_cap * 2, t.len, r.items), st |-> "ok"]

\* HashTable::reserve_exact: a new array of new_cap slots, the pairs of
\* slots 0..old_cap-1 re-homed in it in slot order
reserve_exact(t, old_cap, new_cap, ub) ==
    LET r == reserve_exact_loop(t.items, old_cap, NewItems(new_cap), new_cap, 0, ub)
    IN IF r.st # "ok" THEN [t |-> t, st |-> r.st]
       ELSE [t |-> MkTable(new_cap, t.len, r.items), st |-> "ok"]

\* the test "resize on 75% capacity": len << 2 > (cap << 1) + cap, on the
\* length before its increment
over_threshold(length, cap) == length * 4 > cap * 2 + cap

\* HashTable::emplace_unique_hint. The result names the new table, the
\* returned iterator, the inserted flag, and whether the iterator is left
\* pointing into the array the call released (dangling).
emplace_unique_hint(t, hint, pair, ub) ==
    IF ~iterator_eq(hint, end(t))
       /\ (~has_value(t.items[hint.item]) \/ cmp(t.items[hint.item][1], pair[1]))
    THEN LET had_value == has_value(t.items[hint.item])
             t1 == [t EXCEPT !.items[hint.item] = pair]
         IN IF had_value
            THEN [t |-> t1, it |-> hint, inserted |-> FALSE,
                  dangling |-> FALSE, st |-> "ok"]
            ELSE LET cap == t1.capacity
                     t2 == [t1 EXCEPT !.len = t1.len + 1]
                 IN IF over_threshold(t1.len, cap)
                    THEN LET r == reserve_exact(t2, cap, cap * 2, ub)
                         IN [t |-> r.t, it |-> hint, inserted |-> TRUE,
                             dangling |-> r.st = "ok", st |-> r.st]
                    ELSE [t |-> t2, it |-> hint, inserted |-> TRUE,
                          dangling |-> FALSE, st |-> "ok"]
    ELSE Once(IF t.capacity = 0
              THEN reserve_exact(t, 0, INITIAL_CAPACITY, ub)
              ELSE [t |-> t, st |-> "ok"],
         LAMBDA r0 :
           IF r0.st # "ok"
           THEN [t |-> t, it |-> hint, inserted |-> FALSE,
                 dangling |-> FALSE, st |-> r0.st]
           ELSE Once(IF over_threshold(r0.t.len, r0.t.capacity)
                     THEN reserve_exact([r0.t EXCEPT !.len = r0.t.len + 1],
                                        r0.t.capacity, r0.t.capacity * 2, ub)
                     ELSE [t |-> [r0.t EXCEPT !.len = r0.t.len + 1], st |-> "ok"],
                LAMBDA r1 :
                  IF r1.st # "ok"
                  THEN [t |-> t, it |-> hint, inserted |-> FALSE,
                        dangling |-> FALSE, st |-> r1.st]
                  ELSE Once(inner_insert(r1.t.items, r1.t.capacity, pair, ub),
                       LAMBDA r2 :
                         IF r2.st # "ok"
                         THEN [t |-> t, it |-> hint, inserted |-> FALSE,
                               dangling |-> FALSE, st |-> r2.st]
                         ELSE [t |-> [r1.t EXCEPT !.items = r2.items],
                               it |-> iterator(r2.index), inserted |-> TRUE,
                               dangling |-> FALSE, st |-> "ok"])))

\* ------------------------------------------------- construction, capacity

\* HashTable(): no array
HashTable0 == MkTable(0, 0, NewItems(0))

\* HashTable(size_t bucket_count)
HashTableN(bucket_count) ==
    IF bucket_count = 0 THEN MkTable(0, 0, NewItems(0))
    ELSE MkTable(bit_ceil(bucket_count), 0, NewItems(bit_ceil(bucket_count)))

\* the loop shared by HashTable(initializer_list), operator=(initializer_list)
\* and insert(initializer_list) over list[i..]; cap is the capacity the
\* third branch passes to inner_insert
RECURSIVE insert_list_loop(_, _, _, _, _)
insert_list_loop(t, list, i, cap, ub) ==
    IF i > Len(list) THEN [t |-> t, st |-> "ok"]
    ELSE LET item == list[i]
             r == index_of(t, item[1], ub)
         IN IF r.st # "ok" THEN [t |-> t, st |-> r.st]
            ELSE IF r.second \notin DOMAIN t.items THEN [t |-> t, st |-> "fault"]
            ELSE IF r.first /\ cmp(t.items[r.second][1], item[1])
            THEN insert_list_loop([t EXCEPT !.items[r.second] = item],
                                  list, i + 1, cap, ub)
            ELSE IF ~has_value(t.items[r.second])
            THEN insert_list_loop([t EXCEPT !.len = t.len + 1,
                                            !.items[r.second] = item],
                                  list, i + 1, cap, ub)
            ELSE LET q == inner_insert(t.items, cap, item, ub)
                 IN IF q.st # "ok" THEN [t |-> t, st |-> q.st]
                    ELSE insert_list_loop([t EXCEPT !.len = t.len + 1,
                                                    !.items = q.items],
                                          list, i + 1, cap, ub)

\* HashTable(std::initializer_list<value_type> init, size_t bucket_count)
HashTableList(init, bucket_count, ub) ==
    Once(bit_ceil(Max(bucket_count, Len(init))),
    LAMBDA cap : insert_list_loop(MkTable(cap, 0, NewItems(cap)), init, 1, cap, ub))

\* HashTable::operator=(std::initializer_list<value_type>)
assign_list(t, ilist, ub) ==
    LET want == Len(ilist) + (Len(ilist) \div 2)
    IN Once(IF want > t.capacity
            THEN reserve_exact(t, t.capacity, bit_ceil(want), ub)
            ELSE [t |-> t, st |-> "ok"],
       LAMBDA r :
         IF r.st # "ok" THEN [t |-> t, st |-> r.st]
         ELSE insert_list_loop(MkTable(r.t.capacity, 0, NewItems(r.t.capacity)),
                               ilist, 1, r.t.capacity, ub))

\* HashTable::clear
clear(t) == MkTable(0, 0, NewItems(0))

\* HashTable::reserve
reserve(t, min_capacity, ub) ==
    LET old_cap == t.capacity
    IN IF min_capacity <= old_cap THEN [t |-> t, st |-> "ok"]
       ELSE reserve_exact(t, old_cap, bit_ceil(min_capacity), ub)

\* HashTable::shrink_to_fit: new_cap is bit_ceil(capacity)
shrink_to_fit(t, ub) ==
    IF t.len = 0 THEN [t |-> clear(t), st |-> "ok"]
    ELSE LET old_cap == t.capacity
             new_cap == bit_ceil(t.capacity)
         IN IF new_cap >= old_cap THEN [t |-> t, st |-> "ok"]
            ELSE reserve_exact(t, old_cap, new_cap, ub)

\* HashTable::rehash
rehash(t, min_capacity, ub) ==
    LET old_cap == t.capacity
    IN IF min_capacity > old_cap THEN reserve(t, min_capacity, ub)
       ELSE reserve_exact(t, old_cap, old_cap, ub)

\* ---------------------------------------------------------------- lookup

\* HashTable::contains, in a table whose lookup returns
contains(t, key, ub) == index_of(t, key, ub).first

\* HashTable::find: the iterator, end() when the key is not found
find(t, key, ub) ==
    LET r == index_of(t, key, ub)
    IN [it |-> IF r.first THEN iterator(r.second) ELSE end(t), st |-> r.st]

\* HashTable::at: the value stored for key; std::out_of_range is thrown when
\* the key is not found
at(t, key, ub) ==
    LET r == index_of(t, key, ub)
    IN IF r.st # "ok" THEN [value |-> 0, st |-> r.st]
       ELSE IF r.first THEN [value |-> t.items[r.second][2], st |-> "ok"]
       ELSE [value |-> 0, st |-> "throw"]

\* --------------------------------------------------------------- insertion

\* what an insertion that stopped without returning leaves
NoInsert(t, st) ==
    [t |-> t, it |-> end(t), inserted |-> FALSE, dangling |-> FALSE, st |-> st]

\* HashTable::emplace, and insert(value_type), which forwards to it
emplace(t, key, value, ub) ==
    LET r == index_of(t, key, ub)
    IN IF r.st # "ok" THEN NoInsert(t, r.st)
       ELSE IF r.first
       THEN [t |-> t, it |-> iterator(r.second), inserted |-> FALSE,
             dangling |-> FALSE, st |-> "ok"]
       ELSE emplace_unique_hint(t, iterator(r.second), Some(key, value), ub)

insert(t, key, value, ub) == emplace(t, key, value, ub)

\* HashTable::emplace_or_assign, and insert_or_assign, which forwards to it
emplace_or_assign(t, key, value, ub) ==
    LET r == index_of(t, key, ub)
    IN IF r.st # "ok" THEN NoInsert(t, r.st)
       ELSE IF r.first
       THEN [t |-> [t EXCEPT !.items[r.second] = Some(key, value)],
             it |-> iterator(r.second), inserted |-> FALSE,
             dangling |-> FALSE, st |-> "ok"]
       ELSE emplace_unique_hint(t, iterator(r.second), Some(key, value), ub)

insert_or_assign(t, key, value, ub) == emplace_or_assign(t, key, value, ub)

\* HashTable::insert_unique
insert_unique(t, key, value, ub) ==
    Once(IF t.capacity = 0
         THEN reserve_exact(t, 0, INITIAL_CAPACITY, ub)
         ELSE [t |-> t, st |-> "ok"],
    LAMBDA r0 :
      IF r0.st # "ok" THEN NoInsert(t, r0.st)
      ELSE Once(IF over_threshold(r0.t.len, r0.t.capacity)
                THEN reserve_exact([r0.t EXCEPT !.len = r0.t.len + 1],
                                   r0.t.capacity, r0.t.capacity * 2, ub)
                ELSE [t |-> [r0.t EXCEPT !.len = r0.t.len + 1], st |-> "ok"],
           LAMBDA r1 :
             IF r1.st # "ok" THEN NoInsert(t, r1.st)
             ELSE Once(inner_insert(r1.t.items, r1.t.capacity, Some(key, value), ub),
                  LAMBDA r2 :
                    IF r2.st # "ok" THEN NoInsert(t, r2.st)
                    ELSE [t |-> [r1.t EXCEPT !.items = r2.items],
                          it |-> iterator(r2.index), inserted |-> TRUE,
                          dangling |-> FALSE, st |-> "ok"])))

\* HashTable::find_or_insert, and operator[], which forwards to it: index is
\* the slot whose value the returned reference names
find_or_insert(t, key, ub) ==
    Once(IF t.capacity = 0
         THEN reserve_exact(t, 0, INITIAL_CAPACITY, ub)
         ELSE [t |-> t, st |-> "ok"],
    LAMBDA r0 :
      IF r0.st # "ok" THEN [t |-> t, index |-> 0, st |-> r0.st]
      ELSE Once(index_of(r0.t, key, ub),
           LAMBDA r :
             IF r.st # "ok" THEN [t |-> t, index |-> 0, st |-> r.st]
             ELSE IF r.first THEN [t |-> r0.t, index |-> r.second, st |-> "ok"]
             ELSE [t |-> [r0.t EXCEPT !.len = r0.t.len + 1,
                                      !.items[r.second] = Some(key, 0)],
                   index |-> r.second, st |-> "ok"]))

\* ------------------------------------------------------ iterator movement

\* the loop "while (!item->has_value() && item != end) item++" of the
\* two-pointer constructors and of operator++: has_value() is read before
\* the pointer is compared, so the slot one past the array is read too;
\* rd is the outcome of such a read
RECURSIVE skip_empty(_, _, _, _)
skip_empty(t, item, last, rd) ==
    IF item \notin DOMAIN t.items
    THEN IF rd = "fault" \/ item # last
         THEN [item |-> item, st |-> "fault"]
         ELSE [item |-> item, st |-> "ok"]
    ELSE IF has_value(t.items[item]) \/ item = last
    THEN [item |-> item, st |-> "ok"]
    ELSE skip_empty(t, item + 1, last, rd)

\* iterator(HtItem* item, const HtItem* end), const_iterator(item, end)
iterator2(t, item, last, rd) ==
    LET r == skip_empty(t, item, last, rd)
    IN [it |-> [item |-> r.item, end |-> last], st |-> r.st]

\* iterator::operator++, const_iterator::operator++
increment(t, it, rd) ==
    IF it.item = it.end THEN [it |-> it, st |-> "ok"]
    ELSE iterator2(t, it.item + 1, it.end, rd)

\* HashTable::begin, HashTable::cbegin
begin(t, rd) == iterator2(t, 0, t.capacity, rd)

\* iterator::operator const_iterator
to_const_iterator(t, it, rd) == iterator2(t, it.item, it.end, rd)

\* HashTable::cbegin(size_t n), begin(size_t n): a handle to slot n
cbegin_n(t, n) == IF n >= t.len THEN end(t) ELSE iterator(n)

\* the pairs a loop "for (it = begin(); it != end(); ++it)" reads from it
\* on, in the order it reads them
RECURSIVE iterate_from(_, _, _)
iterate_from(t, it, rd) ==
    IF iterator_eq(it, end(t)) THEN [seq |-> <<>>, st |-> "ok"]
    ELSE IF it.item \notin DOMAIN t.items THEN [seq |-> <<>>, st |-> "fault"]
    ELSE Once(increment(t, it, rd),
         LAMBDA n :
           IF n.st # "ok" THEN [seq |-> <<t.items[it.item]>>, st |-> n.st]
           ELSE Once(iterate_from(t, n.it, rd),
                LAMBDA r : [seq |-> <<t.items[it.item]>> \o r.seq, st |-> r.st]))

\* the range-based for loop over a table
iterate(t, rd) ==
    Once(begin(t, rd),
    LAMBDA b : IF b.st # "ok" THEN [seq |-> <<>>, st |-> b.st]
               ELSE iterate_from(t, b.it, rd))

\* ----------------------------------------------------------------- erase

\* HashTable::erase(const Key&): the slot is reset, nothing is moved
erase(t, key, ub) ==
    LET r == index_of(t, key, ub)
    IN IF r.st # "ok" THEN [t |-> t, ret |-> 0, st |-> r.st]
       ELSE IF r.first
       THEN [t |-> [t EXCEPT !.items[r.second] = None, !.len = t.len - 1],
             ret |-> 1, st |-> "ok"]
       ELSE [t |-> t, ret |-> 0, st |-> "ok"]

\* HashTable::erase(iterator pos), erase(const_iterator pos)
erase_pos(t, pos, rd) ==
    IF pos.item \notin DOMAIN t.items THEN [t |-> t, it |-> pos, st |-> "fault"]
    ELSE Once([t EXCEPT !.items[pos.item] = None, !.len = t.len - 1],
         LAMBDA t1 :
           Once(increment(t1, pos, rd),
           LAMBDA r :
             IF r.st # "ok" THEN [t |-> t, it |-> pos, st |-> r.st]
             ELSE [t |-> t1, it |-> r.it, st |-> "ok"]))

\* the loop of HashTable::erase(const_iterator first, const_iterator last);
\* a first that operator++ leaves where it is, and that differs from last,
\* is reset for ever
RECURSIVE erase_range_loop(_, _, _, _)
erase_range_loop(t, first, last, rd) ==
    IF const_iterator_eq(first, last) THEN [t |-> t, st |-> "ok"]
    ELSE IF first.item \notin DOMAIN t.items THEN [t |-> t, st |-> "fault"]
    ELSE Once([t EXCEPT !.items[first.item] = None, !.len = t.len - 1],
         LAMBDA t1 :
           Once(increment(t1, first, rd),
           LAMBDA r :
             IF r.st # "ok" THEN [t |-> t1, st |-> r.st]
             ELSE IF r.it = first THEN [t |-> t1, st |-> "hang"]
             ELSE erase_range_loop(t1, r.it, last, rd)))

\* HashTable::erase(const_iterator first, const_iterator last), called with
\* two iterators, each converted to a const_iterator
erase_range(t, first, last, rd) ==
    Once(to_const_iterator(t, first, rd),
    LAMBDA f :
      Once(to_const_iterator(t, last, rd),
      LAMBDA l :
        IF f.st # "ok" \/ l.st # "ok" THEN [t |-> t, it |-> last, st |-> "fault"]
        ELSE Once(erase_range_loop(t, f.it, l.it, rd),
             LAMBDA r :
               IF r.st # "ok" THEN [t |-> t, it |-> last, st |-> r.st]
               ELSE Once(iterator2(r.t, l.it.item, l.it.end, rd),
                    LAMBDA out :
                      IF out.st # "ok" THEN [t |-> t, it |-> last, st |-> out.st]
                      ELSE [t |-> r.t, it |-> out.it, st |-> "ok"]))))

\* HashTable::emplace_hint: a hint other than cend() is used without a look
\* at its key and without the resize test
emplace_hint(t, hint, key, value, ub) ==
    IF ~const_iterator_eq(hint, end(t))
    THEN IF hint.item \notin DOMAIN t.items
         THEN [t |-> t, it |-> hint, st |-> "fault"]
         ELSE LET had_value == has_value(t.items[hint.item])
              IN IF ~had_value
                 THEN [t |-> [t EXCEPT !.len = t.len + 1,
                                       !.items[hint.item] = Some(key, value)],
                       it |-> iterator(hint.item), st |-> "ok"]
                 ELSE [t |-> t, it |-> iterator(hint.item), st |-> "ok"]
    ELSE Once(emplace(t, key, value, ub),
         LAMBDA r : [t |-> r.t, it |-> r.it, st |-> r.st])

\* HashTable::insert(std::initializer_list<value_type>)
insert_list(t, ilist, ub) ==
    LET list_size_rounded == bit_ceil(Len(ilist) + (Len(ilist) \div 2))
    IN Once(IF t.capacity = 0
            THEN reserve_exact(t, 0, Max(INITIAL_CAPACITY, list_size_rounded), ub)
            ELSE [t |-> t, st |-> "ok"],
       LAMBDA r0 :
         IF r0.st # "ok" THEN [t |-> t, st |-> r0.st]
         ELSE Once(IF (r0.t.len + Len(ilist)) * 4 > r0.t.capacity * 2 + r0.t.capacity
                   THEN reserve_exact(r0.t, r0.t.capacity,
                                      Max(r0.t.capacity * 2, list_size_rounded), ub)
                   ELSE [t |-> r0.t, st |-> "ok"],
              LAMBDA r1 :
                IF r1.st # "ok" THEN [t |-> t, st |-> r1.st]
                ELSE insert_list_loop(r1.t, ilist, 1, r0.t.capacity, ub)))

\* ------------------------------------------------------ allocation failure

\* The calls below are the calls above in a run where operator new throws
\* std::bad_alloc at the first allocation of a slot array the call makes.
\* The result names the table the exception leaves behind; st is "bad_alloc"
\* when the call allocated, "none" when it returned without allocating.

\* a call that ended without reaching an allocation
NoAlloc(t) == [t |-> t, st |-> "none"]

\* HashTable::reserve_exact: new HtItem[new_cap] is its first statement
reserve_exact_bad_alloc(t, old_cap, new_cap) == [t |-> t, st |-> "bad_alloc"]

\* HashTable::emplace_unique_hint: on the hint path the pair is stored and
\* len incremented before reserve_exact is called; on the other path len
\* is incremented by the resize test itself
emplace_unique_hint_bad_alloc(t, hint, pair) ==
    IF ~iterator_eq(hint, end(t))
       /\ (~has_value(t.items[hint.item]) \/ cmp(t.items[hint.item][1], pair[1]))
    THEN LET had_value == has_value(t.items[hint.item])
             t1 == [t EXCEPT !.items[hint.item] = pair]
         IN IF had_value THEN NoAlloc(t1)
            ELSE LET cap == t1.capacity
                     t2 == [t1 EXCEPT !.len = t1.len + 1]
                 IN IF over_threshold(t1.len, cap)
                    THEN reserve_exact_bad_alloc(t2, cap, cap * 2)
                    ELSE NoAlloc(t2)
    ELSE IF t.capacity = 0
    THEN reserve_exact_bad_alloc(t, 0, INITIAL_CAPACITY)
    ELSE IF over_threshold(t.len, t.capacity)
    THEN reserve_exact_bad_alloc([t EXCEPT !.len = t.len + 1],
                                 t.capacity, t.capacity * 2)
    ELSE NoAlloc(t)

\* HashTable::emplace, insert(value_type)
emplace_bad_alloc(t, key, value, ub) ==
    Once(index_of(t, key, ub),
    LAMBDA r :
      IF r.st # "ok" THEN [t |-> t, st |-> r.st]
      ELSE IF r.first THEN NoAlloc(t)
      ELSE emplace_unique_hint_bad_alloc(t, iterator(r.second), Some(key, value)))

\* HashTable::emplace_or_assign, insert_or_assign
emplace_or_assign_bad_alloc(t, key, value, ub) ==
    Once(index_of(t, key, ub),
    LAMBDA r :
      IF r.st # "ok" THEN [t |-> t, st |-> r.st]
      ELSE IF r.first THEN NoAlloc([t EXCEPT !.items[r.second] = Some(key, value)])
      ELSE emplace_unique_hint_bad_alloc(t, iterator(r.second), Some(key, value)))

\* HashTable::insert_unique
insert_unique_bad_alloc(t, key, value) ==
    IF t.capacity = 0
    THEN reserve_exact_bad_alloc(t, 0, INITIAL_CAPACITY)
    ELSE IF over_threshold(t.len, t.capacity)
    THEN reserve_exact_bad_alloc([t EXCEPT !.len = t.len + 1],
                                 t.capacity, t.capacity * 2)
    ELSE NoAlloc(t)

\* HashTable::reserve
reserve_bad_alloc(t, min_capacity) ==
    IF min_capacity <= t.capacity THEN NoAlloc(t)
    ELSE reserve_exact_bad_alloc(t, t.capacity, bit_ceil(min_capacity))

\* HashTable::rehash
rehash_bad_alloc(t, min_capacity) ==
    IF min_capacity > t.capacity THEN reserve_bad_alloc(t, min_capacity)
    ELSE reserve_exact_bad_alloc(t, t.capacity, t.capacity)

\* ------------------------------------------------ copy, comparison, swap

\* HashTable(const HashTable& other): no array for a table of capacity 0,
\* else an array of other's capacity with the pair of every slot copied
HashTableCopy(other) ==
    IF other.capacity = 0 THEN MkTable(0, 0, NewItems(0))
    ELSE MkTable(other.capacity, other.len,
                 [i \in 0..(other.capacity - 1) |->
                     IF has_value(other.items[i])
                     THEN Some(other.items[i][1], other.items[i][2])
                     ELSE None])

\* HashTable::operator=(const HashTable& other), other another object
copy_assign(t, other) ==
    LET new_items == [i \in 0..(other.capacity - 1) |->
                         IF has_value(other.items[i])
                         THEN Some(other.items[i][1], other.items[i][2])
                         ELSE None]
    IN MkTable(other.capacity, other.len, new_items)

\* the loop of HashTable::operator== from the entry at it on: every pair of
\* a is looked up in b by find
RECURSIVE eq_loop(_, _, _, _, _)
eq_loop(a, b, it, ub, rd) ==
    IF const_iterator_eq(it, end(a)) THEN [value |-> TRUE, st |-> "ok"]
    ELSE Once(find(b, a.items[it.item][1], ub),
         LAMBDA iter :
           IF iter.st # "ok" THEN [value |-> FALSE, st |-> iter.st]
           ELSE IF const_iterator_eq(iter.it, end(b))
           THEN [value |-> FALSE, st |-> "ok"]
           ELSE IF a.items[it.item][2] # b.items[iter.it.item][2]
           THEN [value |-> FALSE, st |-> "ok"]
           ELSE Once(increment(a, it, rd),
                LAMBDA n :
                  IF n.st # "ok" THEN [value |-> FALSE, st |-> n.st]
                  ELSE eq_loop(a, b, n.it, ub, rd)))

\* HashTable::operator==; same_items tells whether the two tables hold the
\* same pointer to an array
eq(a, b, same_items, ub, rd) ==
    IF a.len # b.len THEN [value |-> FALSE, st |-> "ok"]
    ELSE IF same_items THEN [value |-> TRUE, st |-> "ok"]
    ELSE Once(begin(a, rd),
         LAMBDA r :
           IF r.st # "ok" THEN [value |-> FALSE, st |-> r.st]
           ELSE eq_loop(a, b, r.it, ub, rd))

\* HashTable(HashTable&& other): the new table and what is left of other
HashTableMove(other) ==
    [this |-> MkTable(other.capacity, other.len, other.items),
     other |-> MkTable(0, 0, NewItems(0))]

\* HashTable::operator=(HashTable&& other), other another object
move_assign(t, other) ==
    [this |-> MkTable(other.capacity, other.len, other.items),
     other |-> MkTable(0, 0, NewItems(0))]

\* HashTable::operator!=
neq(a, b, same_items, ub, rd) ==
    Once(eq(a, b, same_items, ub, rd),
    LAMBDA r : [value |-> ~r.value, st |-> r.st])

\* a swap that leaves each table its own length
swap_keeps_len(this, other) ==
    [this |-> MkTable(other.capacity, this.len, other.items),
     other |-> MkTable(this.capacity, other.len, this.items)]

\* HashTable::swap: the two tables after the call
swap(this, other) ==
    LET items == this.items
        capacity == this.capacity
        len == this.len
    IN [this |-> MkTable(other.capacity, other.len, other.items),
        other |-> MkTable(capacity, len, items)]

\* ------------------------------------------------------------------ state

\* tab:    the table x under test
\* shadow: for every key, the value a map holds for it after the calls made
\*         so far (Absent when it holds none): what the callers expect of x
\* pc:     "ready" between calls; "hang" or "fault" once a call did not return
VARIABLES tab, shadow, pc

vars == <<tab, shadow, pc>>

Absent == 0 - 1

\* the initializer lists of at most MaxList pairs
Lists == UNION {[1..n -> Keys \X Values] : n \in 0..MaxList}

\* The shift count of hash is 64 only at capacity 1, and a call works on an
\* array of capacity 1 only when it starts at capacity 0 or 1: elsewhere the
\* outcome of that shift is never asked for.
ShiftOutcomes(t) == IF t.capacity <= 1 THEN ShiftUB ELSE {0}

\* the handles a caller holds for emplace_hint: cend(), find(key) of a key
\* that is found, and cbegin(n)
Hints(t, ub) ==
    {end(t)}
    \cup {find(t, k, ub).it : k \in {j \in Keys : index_of(t, j, ub).st = "ok"}}
    \cup {cbegin_n(t, n) : n \in 0..(MaxBucket - 1)}

\* the map after a list of pairs was stored in it, a later pair replacing an
\* earlier one of the same key
RECURSIVE StoreList(_, _, _)
StoreList(m, list, i) ==
    IF i > Len(list) THEN m
    ELSE StoreList([m EXCEPT ![list[i][1]] = list[i][2]], list, i + 1)

EmptyMap == [k \in Keys |-> Absent]

\* the keys of the slots that hold a value in t and none in t1
ErasedKeys(t, t1) ==
    {t.items[i][1] : i \in {j \in DOMAIN t.items :
                               /\ has_value(t.items[j])
                               /\ j \in DOMAIN t1.items
                               /\ ~has_value(t1.items[j])}}

\* the map after the pairs of those slots were erased
EraseFrom(m, t, t1) ==
    [j \in Keys |-> IF j \in ErasedKeys(t, t1) THEN Absent ELSE m[j]]

\* the map after insert(k, v) or emplace(k, v)
InsertInto(m, k, v) == IF m[k] = Absent THEN [m EXCEPT ![k] = v] ELSE m

\* a call that ended with outcome st. A call that does not return ends the
\* run: no further call is made and nothing of the table is seen again, so
\* the state keeps the outcome alone.
Step(st, t1, m1) ==
    /\ pc = "ready"
    /\ st = "ok" => t1.len <= MaxLen
    /\ pc' = IF st = "ok" THEN "ready" ELSE st
    /\ tab' = IF st = "ok" THEN t1 ELSE HashTable0
    /\ shadow' = IF st = "ok" THEN m1 ELSE EmptyMap

Init ==
    \/ \E bucket_count \in 0..MaxBucket :
         /\ tab = HashTableN(bucket_count)
         /\ shadow = EmptyMap
         /\ pc = "ready"
    \/ \E init \in Lists, bucket_count \in 0..MaxBucket, ub \in ShiftUB :
         \E r \in {HashTableList(init, bucket_count, ub)} :
            /\ pc = IF r.st = "ok" THEN "ready" ELSE r.st
            /\ tab = IF r.st = "ok" THEN r.t ELSE HashTable0
            /\ shadow = IF r.st = "ok" THEN StoreList(EmptyMap, init, 1) ELSE EmptyMap

Insert(k, v) ==
    \E ub \in ShiftOutcomes(tab) :
        \E r \in {insert(tab, k, v, ub)} :
           Step(r.st, r.t, InsertInto(shadow, k, v))

InsertOrAssign(k, v) ==
    \E ub \in ShiftOutcomes(tab) :
        \E r \in {insert_or_assign(tab, k, v, ub)} :
           Step(r.st, r.t, [shadow EXCEPT ![k] = v])

\* the caller of insert_unique guarantees that the key is absent
InsertUnique(k, v) ==
    /\ shadow[k] = Absent
    /\ \E ub \in ShiftOutcomes(tab) :
        /\ ~contains(tab, k, ub)
        /\ \E r \in {insert_unique(tab, k, v, ub)} :
              Step(r.st, r.t, [shadow EXCEPT ![k] = v])

\* x[k], read
Index(k) ==
    \E ub \in ShiftOutcomes(tab) :
        \E r \in {find_or_insert(tab, k, ub)} :
           Step(r.st, r.t, InsertInto(shadow, k, 0))

\* x[k] = v: the value is written through the returned reference
IndexAssign(k, v) ==
    \E ub \in ShiftOutcomes(tab) :
        \E r \in {find_or_insert(tab, k, ub)} :
           Step(r.st,
                IF r.st = "ok" THEN [r.t EXCEPT !.items[r.index][2] = v] ELSE tab,
                [shadow EXCEPT ![k] = v])

EraseKey(k) ==
    \E ub \in ShiftOutcomes(tab) :
        \E r \in {erase(tab, k, ub)} :
           Step(r.st, r.t, [shadow EXCEPT ![k] = Absent])

\* x.erase(x.find(k)), for a key that is found
EraseFound(k) ==
    \E ub \in ShiftOutcomes(tab), rd \in ReadUB :
        \E f \in {find(tab, k, ub)} :
           /\ f.st = "ok"
           /\ ~iterator_eq(f.it, end(tab))
           /\ \E r \in {erase_pos(tab, f.it, rd)} :
                 Step(r.st, r.t, EraseFrom(shadow, tab, r.t))

\* x.erase(x.begin()), for a table whose begin() is not end()
EraseBegin ==
    \E rd \in ReadUB :
        \E b \in {begin(tab, rd)} :
           /\ b.st = "ok"
           /\ ~iterator_eq(b.it, end(tab))
           /\ \E r \in {erase_pos(tab, b.it, rd)} :
                 Step(r.st, r.t, EraseFrom(shadow, tab, r.t))

\* the ranges [first, last) a caller erases: [begin(), end()),
\* [begin(), find(k)) and [find(k), end()) for a key that is found
Ranges(t, ub, rd) ==
    LET found == {k \in Keys : index_of(t, k, ub).st = "ok" /\ index_of(t, k, ub).first}
        b == begin(t, rd)
    IN {<<b.it, end(t)>> : x \in IF b.st = "ok" THEN {0} ELSE {}}
       \cup {<<b.it, find(t, k, ub).it>> : k \in IF b.st = "ok" THEN found ELSE {}}
       \cup {<<find(t, k, ub).it, end(t)>> : k \in found}

EraseRange ==
    \E ub \in ShiftOutcomes(tab), rd \in ReadUB :
        \E range \in Ranges(tab, ub, rd) :
            \E r \in {erase_range(tab, range[1], range[2], rd)} :
               Step(r.st, r.t, EraseFrom(shadow, tab, r.t))

Reserve(min_capacity) ==
    \E ub \in ShiftOutcomes(tab) :
        \E r \in {reserve(tab, min_capacity, ub)} :
           Step(r.st, r.t, shadow)

ShrinkToFit ==
    \E ub \in ShiftOutcomes(tab) :
        \E r \in {shrink_to_fit(tab, ub)} :
           Step(r.st, r.t, shadow)

Rehash(min_capacity) ==
    \E ub \in ShiftOutcomes(tab) :
        \E r \in {rehash(tab, min_capacity, ub)} :
           Step(r.st, r.t, shadow)

Clear == Step("ok", clear(tab), EmptyMap)

InsertList(ilist) ==
    \E ub \in ShiftOutcomes(tab) :
        \E r \in {insert_list(tab, ilist, ub)} :
           Step(r.st, r.t, StoreList(shadow, ilist, 1))

AssignList(ilist) ==
    \E ub \in ShiftOutcomes(tab) :
        \E r \in {assign_list(tab, ilist, ub)} :
           Step(r.st, r.t, StoreList(EmptyMap, ilist, 1))

EmplaceHint(k, v) ==
    \E ub \in ShiftOutcomes(tab) :
        \E hint \in Hints(tab, ub) :
            \E r \in {emplace_hint(tab, hint, k, v, ub)} :
               Step(r.st, r.t, InsertInto(shadow, k, v))

\* HashTable y(init, bucket_count); x.swap(y);
Swap(init, bucket_count) ==
    \E ub \in ShiftUB :
        \E y \in {HashTableList(init, bucket_count, ub)} :
           IF y.st # "ok" THEN Step(y.st, tab, shadow)
           ELSE \E r \in {swap(tab, y.t)} :
                   Step("ok", r.this, StoreList(EmptyMap, init, 1))

\* HashTable y = x; x = y;
CopyAssign ==
    \E y \in {HashTableCopy(tab)} :
        Step("ok", copy_assign(tab, y), shadow)

\* HashTable z = std::move(x); x = std::move(z);
MoveAssign ==
    \E z \in {HashTableMove(tab)} :
        Step("ok", move_assign(z.other, z.this).this, shadow)

\* A call in which the allocation of the slot array throws std::bad_alloc:
\* the caller catches the exception and goes on with the table as the call
\* left it, expecting of the map what it held before the call.
Thrown(r) ==
    /\ r.st = "bad_alloc"
    /\ Step("ok", r.t, shadow)

InsertBadAlloc(k, v) ==
    \E ub \in ShiftOutcomes(tab) : Thrown(emplace_bad_alloc(tab, k, v, ub))

InsertOrAssignBadAlloc(k, v) ==
    \E ub \in ShiftOutcomes(tab) : Thrown(emplace_or_assign_bad_alloc(tab, k, v, ub))

InsertUniqueBadAlloc(k, v) ==
    /\ shadow[k] = Absent
    /\ \E ub \in ShiftOutcomes(tab) : ~contains(tab, k, ub)
    /\ Thrown(insert_unique_bad_alloc(tab, k, v))

ReserveBadAlloc(min_capacity) == Thrown(reserve_bad_alloc(tab, min_capacity))

RehashBadAlloc(min_capacity) == Thrown(rehash_bad_alloc(tab, min_capacity))

\* the calls of the interface other than emplace_hint
NextPlain ==
    \/ \E k \in Keys, v \in Values : Insert(k, v)
    \/ \E k \in Keys, v \in Values : InsertOrAssign(k, v)
    \/ \E k \in Keys, v \in Values : InsertUnique(k, v)
    \/ \E k \in Keys : Index(k)
    \/ \E k \in Keys, v \in Values : IndexAssign(k, v)
    \/ \E k \in Keys : EraseKey(k)
    \/ \E k \in Keys : EraseFound(k)
    \/ EraseBegin
    \/ EraseRange
    \/ \E m \in 0..MaxBucket : Reserve(m)
    \/ ShrinkToFit
    \/ \E m \in 0..MaxBucket : Rehash(m)
    \/ Clear
    \/ \E ilist \in Lists : InsertList(ilist)
    \/ \E ilist \in Lists : AssignList(ilist)
    \/ \E init \in Lists, bucket_count \in 0..MaxBucket : Swap(init, bucket_count)
    \/ CopyAssign
    \/ MoveAssign
    \/ \E k \in Keys, v \in Values : InsertBadAlloc(k, v)
    \/ \E k \in Keys, v \in Values : InsertOrAssignBadAlloc(k, v)
    \/ \E k \in Keys, v \in Values : InsertUniqueBadAlloc(k, v)
    \/ \E m \in 0..MaxBucket : ReserveBadAlloc(m)
    \/ \E m \in 0..MaxBucket : RehashBadAlloc(m)

Next ==
    \/ NextPlain
    \/ \E k \in Keys, v \in Values : EmplaceHint(k, v)

\* every call of the interface
Spec == Init /\ [][Next]_vars

\* the calls that take no hint: emplace_hint converts the const pointer of
\* its hint to a pointer to a slot, which no instantiation of it compiles
SpecPlain == Init /\ [][NextPlain]_vars

\* ---- the insertions that look the key up first, with erase and resize

\* HashTable<int, int> x(bucket_count);
InitChecked ==
    \E bucket_count \in 0..MaxBucket :
        /\ tab = HashTableN(bucket_count)
        /\ shadow = EmptyMap
        /\ pc = "ready"

NextChecked ==
    \/ \E k \in Keys, v \in Values : Insert(k, v)
    \/ \E k \in Keys, v \in Values : InsertOrAssign(k, v)
    \/ \E k \in Keys : Index(k)
    \/ \E k \in Keys, v \in Values : IndexAssign(k, v)
    \/ \E k \in Keys : EraseKey(k)
    \/ \E k \in Keys : EraseFound(k)
    \/ EraseBegin
    \/ EraseRange
    \/ \E m \in 0..MaxBucket : Reserve(m)
    \/ ShrinkToFit
    \/ \E m \in 0..MaxBucket : Rehash(m)

\* insert, emplace, insert_or_assign and operator[] interleaved with erase,
\* reserve, shrink_to_fit and rehash
SpecChecked == InitChecked /\ [][NextChecked]_vars

\* ---- a table of 2 * MaxBucket buckets filled with distinct keys

\* HashTable<int, int> x(2 * MaxBucket);
InitFill ==
    /\ tab = HashTableN(2 * MaxBucket)
    /\ shadow = EmptyMap
    /\ pc = "ready"

\* the map after insert(k, v), for the keys the map follows
FollowInsert(m, k, v) ==
    [j \in DOMAIN m |-> IF j = k /\ m[j] = Absent THEN v ELSE m[j]]

\* a call of the filling run that ended with outcome st
StepFill(st, t1, m1) ==
    /\ pc = "ready"
    /\ st = "ok" => t1.len <= 2 * MaxBucket /\ t1.capacity <= 2 * MaxBucket
    /\ pc' = IF st = "ok" THEN "ready" ELSE st
    /\ tab' = IF st = "ok" THEN t1 ELSE HashTable0
    /\ shadow' = IF st = "ok" THEN m1 ELSE EmptyMap

\* x.insert({k, 0})
FillInsert(k) ==
    \E r \in {insert(tab, k, 0, 0)} :
        StepFill(r.st, r.t, FollowInsert(shadow, k, 0))

\* x.erase(k)
FillErase(k) ==
    \E r \in {erase(tab, k, 0)} :
        StepFill(r.st, r.t, EraseFrom(shadow, tab, r.t))

\* x.insert({k, 0}) in which the allocation of the slot array throws
FillInsertBadAlloc(k) ==
    \E r \in {emplace_bad_alloc(tab, k, 0, 0)} :
        /\ r.st = "bad_alloc"
        /\ StepFill("ok", r.t, shadow)

\* x.insert_unique(k, 0) of a key that is not contained, in which the
\* allocation of the slot array throws
FillUniqueBadAlloc(k) ==
    /\ ~contains(tab, k, 0)
    /\ \E r \in {insert_unique_bad_alloc(tab, k, 0)} :
          /\ r.st = "bad_alloc"
          /\ StepFill("ok", r.t, shadow)

\* the keys the filling run erases: the key of the last bucket
EraseKeys == {2 * MaxBucket}

NextFill ==
    \/ \E k \in FillKeys \cup Keys : FillInsert(k)
    \/ \E k \in EraseKeys : FillErase(k)
    \/ \E k \in FillKeys \cup Keys : FillInsertBadAlloc(k)
    \/ \E k \in FillKeys \cup Keys : FillUniqueBadAlloc(k)

\* insertions and erasures of many keys in a table of 2 * MaxBucket buckets
SpecFill == InitFill /\ [][NextFill]_vars

\* ------------------------------------------------------------- properties

\* the slots of t that hold a value
Occupied(t) == {i \in DOMAIN t.items : has_value(t.items[i])}

\* the slots of t that hold key
Holding(t, key) == {i \in Occupied(t) : cmp(t.items[i][1], key)}

\* The table is between two calls and hash is defined for it: at capacity 1
\* the shift count of hash is 64. The properties of single calls below are
\* stated for these tables, where every call has one outcome.
Defined == pc = "ready" /\ tab.capacity # 1

\* C1: for every key that was inserted and not erased since, find reaches an
\* entry that holds the value most recently inserted or assigned for it.
C1_FindReturnsLatest ==
    Defined =>
        \A k \in Keys :
            shadow[k] # Absent =>
                \A r \in {at(tab, k, 0)} : r.st = "ok" /\ r.value = shadow[k]

\* C2: after erase(k), by key or by handle, every other key whose lookup
\* succeeded before the erase is still found.
C2_OthersSurviveErase ==
    Defined =>
        \A k \in Keys, j \in Keys :
            (j # k /\ contains(tab, j, 0)) =>
                /\ \A r \in {erase(tab, k, 0)} :
                       r.st = "ok" => contains(r.t, j, 0)
                /\ \A f \in {find(tab, k, 0)}, rd \in ReadUB :
                       (f.st = "ok" /\ ~iterator_eq(f.it, end(tab))) =>
                           \A r \in {erase_pos(tab, f.it, rd)} :
                               r.st = "ok" => contains(r.t, j, 0)

\* C3: for every key that was never inserted, or was erased and not inserted
\* again, a contains that returns returns false.
C3_AbsentNotContained ==
    Defined =>
        \A k \in Keys :
            shadow[k] = Absent =>
                \A r \in {index_of(tab, k, 0)} : r.st = "ok" => ~r.first

\* C4: between calls, a table with an array has 4 * length <= 3 * capacity.
C4_LoadFactor ==
    (pc = "ready" /\ tab.capacity > 1) => 4 * tab.len <= 3 * tab.capacity

\* C5: between calls, size() is the number of slots of slots[0..capacity)
\* that hold a value, and 0 <= size() <= capacity.
C5_SizeIsOccupied ==
    pc = "ready" =>
        /\ DOMAIN tab.items = 0..(tab.capacity - 1)
        /\ tab.len = Cardinality(Occupied(tab))
        /\ 0 <= tab.len
        /\ tab.len <= tab.capacity

\* C6: in every state the capacity is 0 or a power of two.
C6_CapacityPowerOfTwo ==
    tab.capacity = 0 \/ \E e \in 0..BitLen(tab.capacity) : tab.capacity = 2 ^ e

\* a table of capacity 4 that holds two pairs: a sizing path has acted
C6_Witness == pc = "ready" /\ tab.capacity = 4 /\ tab.len = 2

\* C7: insert(k, v) for a key that was inserted and not erased returns a
\* handle to an entry of k and false, and changes nothing of the table.
C7_InsertPresentNoOp ==
    Defined =>
        \A k \in Keys, v \in Values :
            shadow[k] # Absent =>
                \A r \in {insert(tab, k, v, 0)} :
                    /\ r.st = "ok"
                    /\ ~r.inserted
                    /\ r.t = tab
                    /\ r.it.item \in Holding(tab, k)

\* C8: insert_or_assign(k, v) for a key that was inserted and not erased
\* returns false, leaves size unchanged and the value of every other key
\* unchanged, and find(k) yields v afterwards.
C8_AssignPresent ==
    Defined =>
        \A k \in Keys, v \in Values :
            shadow[k] # Absent =>
                \A r \in {insert_or_assign(tab, k, v, 0)} :
                    /\ r.st = "ok"
                    /\ ~r.inserted
                    /\ r.t.len = tab.len
                    /\ at(r.t, k, 0) = [value |-> v, st |-> "ok"]
                    /\ \A j \in Keys \ {k} : at(r.t, j, 0) = at(tab, j, 0)

\* C9: insert, insert_or_assign and insert_unique return inserted = true
\* iff no slot that held a value held the key before the call; size grows by
\* one when the flag is true and is unchanged when it is false.
C9_InsertedFlag ==
    Defined =>
        \A k \in Keys, v \in Values :
            \A r \in {insert(tab, k, v, 0), insert_or_assign(tab, k, v, 0)}
                     \cup (IF Holding(tab, k) = {}
                           THEN {insert_unique(tab, k, v, 0)} ELSE {}) :
                r.st = "ok" =>
                    /\ r.inserted <=> Holding(tab, k) = {}
                    /\ r.t.len = tab.len + (IF r.inserted THEN 1 ELSE 0)

\* C10: x[k] returns a reference to the value of k. For a key that is not in
\* the map it inserts (k, 0), so that size grows by one and contains(k) holds;
\* for a key that is in the map it changes nothing; a value written through
\* the reference is the value find(k) returns afterwards.
C10_IndexOperator ==
    Defined =>
        \A k \in Keys :
            \A r \in {find_or_insert(tab, k, 0)} :
                /\ r.st = "ok"
                /\ IF shadow[k] = Absent
                   THEN /\ r.t.len = tab.len + 1
                        /\ contains(r.t, k, 0)
                        /\ r.t.items[r.index] = Some(k, 0)
                   ELSE /\ r.t = tab
                        /\ r.t.items[r.index] = Some(k, shadow[k])
                /\ \A v \in Values :
                       at([r.t EXCEPT !.items[r.index][2] = v], k, 0)
                           = [value |-> v, st |-> "ok"]


\* C11: at(k) returns the value of a key that is in the map and throws
\* std::out_of_range for a key that is not; at writes nothing.
C11_AtOrNotFound ==
    Defined =>
        \A k \in Keys :
            \A r \in {at(tab, k, 0)} :
                IF shadow[k] # Absent
                THEN r.st = "ok" /\ r.value = shadow[k]
                ELSE r.st = "throw"

\* C12: erase(k) returns 1 and size() is one less for a key that is in the
\* map; it returns 0 and changes nothing for a key that is not.
C12_EraseCount ==
    Defined =>
        \A k \in Keys :
            \A r \in {erase(tab, k, 0)} :
                /\ r.st = "ok"
                /\ IF shadow[k] # Absent
                   THEN r.ret = 1 /\ r.t.len = tab.len - 1
                   ELSE r.ret = 0 /\ r.t = tab

\* the iterators a loop "for (it = begin(); it != end(); ++it)" visits from
\* it on, every read of has_value() past the array being benign
RECURSIVE walk(_, _)
walk(t, it) ==
    IF iterator_eq(it, end(t)) \/ it.item \notin DOMAIN t.items THEN {}
    ELSE {it} \cup walk(t, increment(t, it, "benign").it)

\* the handles to entries a caller holds: find(k) of a key that is found, and
\* the iterators reached from begin() by ++
LiveHandles(t) ==
    {find(t, k, 0).it : k \in {j \in Keys : index_of(t, j, 0).st = "ok"
                                             /\ index_of(t, j, 0).first}}
    \cup walk(t, begin(t, "benign").it)

\* the first slot after slot i that holds a value, capacity when there is none
NextLive(t, i) ==
    IF \E j \in Occupied(t) : j > i
    THEN CHOOSE j \in Occupied(t) : j > i /\ \A l \in Occupied(t) : l > i => j <= l
    ELSE t.capacity

\* C13: erase(handle) of a handle to an entry, from find(k) or from begin()
\* and ++, empties that slot, decrements size and returns a handle to the
\* next slot that holds a value, or to the end of the array.
C13_EraseHandleReturnsNext ==
    Defined =>
        \A h \in LiveHandles(tab) :
            \A r \in {erase_pos(tab, h, "benign")} :
                /\ r.st = "ok"
                /\ r.t.items = [tab.items EXCEPT ![h.item] = None]
                /\ r.t.len = tab.len - 1
                /\ r.it.item = NextLive(r.t, h.item)

\* the half-open ranges [first, last) of handles a caller passes to
\* erase(first, last): first a handle to an entry, last a handle to a later
\* entry or end()
HandleRanges(t) ==
    {<<f, l>> \in LiveHandles(t) \X (LiveHandles(t) \cup {end(t)}) :
         f.item < l.item}

\* the items of t with the entries of slots lo..hi-1 removed
WithoutSlots(t, lo, hi) ==
    [i \in DOMAIN t.items |-> IF lo <= i /\ i < hi THEN None ELSE t.items[i]]

\* C14: erase(first, last) returns for every range of handles, removes the
\* entries of [first, last) and no other, and decreases size by their number;
\* erase(begin(), end()) leaves the table empty.
C14_EraseRange ==
    Defined =>
        /\ \A range \in HandleRanges(tab) :
               \A r \in {erase_range(tab, range[1], range[2], "benign")} :
                   /\ r.st = "ok"
                   /\ r.t.items = WithoutSlots(tab, range[1].item, range[2].item)
                   /\ r.t.len = Cardinality(Occupied(r.t))
        /\ \A r \in {erase_range(tab, begin(tab, "benign").it, end(tab), "benign")} :
               r.st = "ok" /\ r.t.len = 0 /\ Occupied(r.t) = {}

\* find(k) reaches the same entry in t1 as in t: both calls return, and the
\* key is found in both with one value or in neither
SameFind(t, t1, k) ==
    \A a \in {at(t, k, 0)} :
        \A b \in {at(t1, k, 0)} :
            a.st \in {"ok", "throw"} => b = a

\* C15: reserve(m) sets capacity to the next power of two of m when that
\* exceeds the capacity and changes nothing otherwise; capacity never falls,
\* capacity >= m afterwards, and size and find(k) of every key are unchanged.
C15_Reserve ==
    Defined =>
        \A m \in 0..MaxBucket :
            \A r \in {reserve(tab, m, 0)} :
                /\ r.st = "ok"
                /\ r.t.capacity = IF bit_ceil(m) > tab.capacity
                                  THEN bit_ceil(m) ELSE tab.capacity
                /\ bit_ceil(m) <= tab.capacity => r.t = tab
                /\ r.t.capacity >= m
                /\ r.t.len = tab.len
                /\ r.t.capacity # 1 => \A k \in Keys : SameFind(tab, r.t, k)

\* the pairs held by t
Pairs(t) == {t.items[i] : i \in Occupied(t)}

\* C16: shrink_to_fit() sets capacity to 0 when length is 0, to the next
\* power of two of length when that is smaller than the capacity, and leaves
\* it unchanged otherwise; size and all pairs are preserved.
C16_ShrinkToFit ==
    Defined =>
        \A r \in {shrink_to_fit(tab, 0)} :
            /\ r.st = "ok"
            /\ r.t.capacity = IF tab.len = 0 THEN 0
                              ELSE IF bit_ceil(tab.len) < tab.capacity
                                   THEN bit_ceil(tab.len) ELSE tab.capacity
            /\ r.t.len = tab.len
            /\ Pairs(r.t) = Pairs(tab)

\* C17: rehash(m) with m <= capacity keeps capacity and size, and contains(k)
\* and the value found for k are the same after the call as before it, for
\* every key and in every state, those reached through erasures included.
C17_RehashInPlace ==
    Defined =>
        \A m \in 0..MaxBucket :
            m <= tab.capacity =>
                \A r \in {rehash(tab, m, 0)} :
                    /\ r.st = "ok"
                    /\ r.t.capacity = tab.capacity
                    /\ r.t.len = tab.len
                    /\ \A k \in Keys : SameFind(tab, r.t, k)

\* the tables a single-key insertion of key into t leaves when it returns:
\* insert, insert_or_assign, insert_unique and operator[]
SingleKeyInsertions(t, key) ==
    {r.t : r \in {x \in UNION {{insert(t, key, v, ub),
                                insert_or_assign(t, key, v, ub),
                                insert_unique(t, key, v, ub),
                                find_or_insert(t, key, ub)} :
                               v \in Values, ub \in ShiftOutcomes(t)} :
                      x.st = "ok"}}

\* C18: a default-constructed table has size 0 and capacity 0; the first
\* single-key insertion into a table of capacity 0 returns and sets capacity
\* to exactly 32; a single-key insertion that changes the capacity of a table
\* of capacity above 0 exactly doubles it.
C18_InitialCapacityAndDoubling ==
    /\ HashTable0.capacity = 0 /\ HashTable0.len = 0
    /\ pc = "ready" =>
          \A k \in Keys :
              \A t1 \in SingleKeyInsertions(tab, k) :
                  /\ tab.capacity = 0 => t1.capacity = 32 /\ t1.len = 1
                  /\ tab.capacity > 0 =>
                        t1.capacity \in {tab.capacity, 2 * tab.capacity}
    /\ (pc = "ready" /\ tab.capacity = 0) =>
          \A k \in Keys : SingleKeyInsertions(tab, k) # {}

\* a table of capacity 32 holding one pair: within the bounds only the first
\* insertion into a table of capacity 0 leaves one
C18_Witness == pc = "ready" /\ tab.capacity = 32 /\ tab.len = 1

\* the insertion at hand grows the table: it is full to the threshold
C18_GrowthReached ==
    /\ pc = "ready" /\ tab.capacity >= 2
    /\ \E k \in Keys : \E t1 \in SingleKeyInsertions(tab, k) :
          t1.capacity = 2 * tab.capacity

\* the tables a caller constructs from a list to swap with x
Others ==
    {r.t : r \in {x \in {HashTableList(init, n, 0) :
                            init \in Lists, n \in 0..MaxBucket} :
                     x.st = "ok" /\ x.t.capacity # 1}}

\* C19: swap(a, b) exchanges capacity, length and contents of the two
\* tables: a key contained only in the former b is contained in a and not in
\* b afterwards, and a second swap(a, b) restores both tables.
C19_Swap ==
    Defined =>
        \A b \in Others :
            \A r \in {swap(tab, b)} :
                /\ r.this.capacity = b.capacity /\ r.other.capacity = tab.capacity
                /\ r.this.len = b.len /\ r.other.len = tab.len
                /\ r.this.items = b.items /\ r.other.items = tab.items
                /\ \A k \in Keys :
                      \A ca \in {index_of(tab, k, 0)} :
                          \A cb \in {index_of(b, k, 0)} :
                              (ca.st = "ok" /\ cb.st = "ok") =>
                                  /\ contains(r.this, k, 0) = cb.first
                                  /\ contains(r.other, k, 0) = ca.first
                /\ swap(r.this, r.other) = [this |-> tab, other |-> b]

\* x holds a key y does not and y holds a key x does not, in arrays of
\* different capacity
C19_Witness ==
    /\ Defined
    /\ \E b \in Others :
          /\ b.capacity # tab.capacity /\ b.len # tab.len
          /\ \E k \in Keys : contains(b, k, 0) /\ index_of(tab, k, 0).st = "ok"
                             /\ ~contains(tab, k, 0)
          /\ \E k \in Keys : index_of(tab, k, 0).st = "ok" /\ contains(tab, k, 0)
                             /\ ~contains(b, k, 0)

\* C20: a fresh copy y of x, made by the copy constructor or by copy
\* assignment, compares equal to x in both directions in every state of x.
C20_CopyEqual ==
    Defined =>
        \A y \in {HashTableCopy(tab), copy_assign(HashTable0, tab)} :
            /\ eq(tab, y, FALSE, 0, "benign") = [value |-> TRUE, st |-> "ok"]
            /\ eq(y, tab, FALSE, 0, "benign") = [value |-> TRUE, st |-> "ok"]

\* the table a move from x leaves x as: no slot, no pair, no key found
MovedFrom(t) ==
    /\ t.len = 0 /\ t.capacity = 0
    /\ \A k \in Keys : \A r \in {index_of(t, k, 0)} : r.st = "ok" /\ ~r.first

\* C21: after move construction or move assignment from x, x is empty (size
\* 0, capacity 0, no key contained) and the destination holds the pairs x
\* held: it compares equal to a copy of x taken before the move.
C21_MoveLeavesSourceEmpty ==
    Defined =>
        \A y \in {HashTableCopy(tab)} :
            \A m \in {HashTableMove(tab), move_assign(HashTable0, tab)} :
                /\ MovedFrom(m.other)
                /\ Pairs(m.this) = Pairs(tab) /\ m.this.len = tab.len
                /\ eq(y, m.this, FALSE, 0, "benign") = [value |-> TRUE, st |-> "ok"]

\* C22: a == b is true exactly when a and b hold the same set of pairs,
\* whatever their capacity, slot layout and history; a != b is its negation
\* and the relation is symmetric.
C22_EqualityIsPairEquality ==
    Defined =>
        \A b \in Others :
            \A same \in {tab.capacity = 0 /\ b.capacity = 0} :
                \A ab \in {eq(tab, b, same, 0, "benign")} :
                    \A ba \in {eq(b, tab, same, 0, "benign")} :
                        /\ ab.st = "ok" /\ ba.st = "ok"
                        /\ ab.value = (Pairs(tab) = Pairs(b))
                        /\ ba.value = ab.value
                        /\ neq(tab, b, same, 0, "benign").value = ~ab.value
                        /\ neq(b, tab, same, 0, "benign").value = ~ba.value

\* C23: insert_or_assign(k, v) is idempotent: a second call with the same
\* arguments returns and leaves a table of the same size and the same pairs
\* as the first call left.
C23_InsertOrAssignIdempotent ==
    Defined =>
        \A k \in Keys, v \in Values :
            \A r1 \in {insert_or_assign(tab, k, v, 0)} :
                r1.st = "ok" =>
                    \A r2 \in {insert_or_assign(r1.t, k, v, 0)} :
                        /\ r2.st = "ok"
                        /\ r2.t.len = r1.t.len
                        /\ r2.t.capacity = r1.t.capacity
                        /\ Pairs(r2.t) = Pairs(r1.t)
                        /\ Cardinality(Occupied(r2.t)) = Cardinality(Occupied(r1.t))

\* the pairs of the map m
MapPairs(m) == {<<k, m[k]>> : k \in {j \in Keys : m[j] # Absent}}

\* seq lists every pair of the set ps once and nothing else
ListsOnce(seq, ps) ==
    /\ Len(seq) = Cardinality(ps)
    /\ {seq[i] : i \in 1..Len(seq)} = ps

\* what construction from the list init with bucket_count buckets is to
\* yield: a table whose iteration lists every distinct key of init once,
\* with the value of its last occurrence, and whose size is their number
BuiltFrom(init, bucket_count, ub) ==
    \A r \in {HashTableList(init, bucket_count, ub)} :
        /\ r.st = "ok"
        /\ \A walked \in {iterate(r.t, "benign")} :
              /\ walked.st = "ok"
              /\ ListsOnce(walked.seq, MapPairs(StoreList(EmptyMap, init, 1)))
        /\ r.t.len = Cardinality(MapPairs(StoreList(EmptyMap, init, 1)))

\* C24: a table constructed from a sequence of pairs iterates over exactly
\* the distinct keys of the sequence, each once and with the value of its
\* last occurrence, and its size is the number of distinct keys.
C24_ConstructFromSequence ==
    pc = "ready" =>
        \A init \in Lists, bucket_count \in 0..MaxBucket :
            \A ub \in ShiftOutcomes(HashTableN(Max(bucket_count, Len(init)))) :
                BuiltFrom(init, bucket_count, ub)

\* C25: iterating from begin() to end() terminates and yields every pair of
\* the map exactly once: size() pairs are produced, each from an occupied
\* slot, and no key appears twice.
C25_IterationYieldsEachOnce ==
    Defined =>
        \A walked \in {iterate(tab, "benign")} :
            /\ walked.st = "ok"
            /\ Len(walked.seq) = tab.len
            /\ \A i \in 1..Len(walked.seq) : has_value(walked.seq[i])
            /\ {walked.seq[i] : i \in 1..Len(walked.seq)} = Pairs(tab)
            /\ \A i, j \in 1..Len(walked.seq) :
                  walked.seq[i][1] = walked.seq[j][1] => i = j
            /\ ListsOnce(walked.seq, MapPairs(shadow))

\* C26: the handle returned by insert, insert_or_assign, insert_unique and
\* emplace refers to a slot of the array the table has after the call, the
\* new array when the call grew the table, and that slot holds the key.
C26_ReturnedHandleIsCurrent ==
    Defined =>
        \A k \in Keys \cup FillKeys, v \in Values :
            \A r \in {insert(tab, k, v, 0), insert_or_assign(tab, k, v, 0),
                      insert_unique(tab, k, v, 0), emplace(tab, k, v, 0)} :
                r.st = "ok" =>
                    /\ ~r.dangling
                    /\ r.it.item \in DOMAIN r.t.items
                    /\ has_value(r.t.items[r.it.item])
                    /\ cmp(r.t.items[r.it.item][1], k)

\* C27: after emplace_hint(hint, k, v) with a valid handle k is present: find(k)
\* reaches an entry of key k, whether the hinted slot was empty, held k or
\* held another key, and an insertion of a new key adds one to size.
C27_EmplaceHintInserts ==
    Defined =>
        \A k \in Keys, v \in Values :
            \A hint \in Hints(tab, 0) :
                \A r \in {emplace_hint(tab, hint, k, v, 0)} :
                    r.st = "ok" =>
                        /\ \A f \in {index_of(r.t, k, 0)} :
                              /\ f.st = "ok" /\ f.first
                              /\ cmp(r.t.items[f.second][1], k)
                        /\ r.it.item \in DOMAIN r.t.items
                        /\ has_value(r.t.items[r.it.item])
                        /\ cmp(r.t.items[r.it.item][1], k)
                        /\ r.t.len = IF contains(tab, k, 0) THEN tab.len ELSE tab.len + 1

\* the calls that resize, in a run where the allocation of the new slot array
\* fails: growth by insert, emplace, insert_or_assign and insert_unique (of
\* a key that is not contained), reserve and rehash
FailedResizes(t) ==
    {r \in UNION {{emplace_bad_alloc(t, k, v, 0),
                   emplace_or_assign_bad_alloc(t, k, v, 0)}
                  \cup (IF contains(t, k, 0) THEN {}
                        ELSE {insert_unique_bad_alloc(t, k, v)})
                  \cup {reserve_bad_alloc(t, m), rehash_bad_alloc(t, m)} :
                  k \in Keys \cup FillKeys, v \in Values, m \in 0..MaxBucket} :
        r.st = "bad_alloc"}

\* C28: when the allocation of the slot array fails during a resize the call
\* fails with an error and capacity, length and contents of the table are
\* those before the call.
C28_FailedResizeChangesNothing ==
    Defined =>
        \A r \in FailedResizes(tab) :
            /\ r.t.capacity = tab.capacity
            /\ r.t.len = tab.len
            /\ r.t.items = tab.items

\* the slots of the linear probe sequence of t from slot home up to slot i
ProbePath(t, home, i) ==
    {BitAnd(home + d, t.capacity - 1) :
        d \in 0..((i - home + t.capacity) % t.capacity)}

\* C33: between two calls, for every occupied slot i holding key k, no slot
\* of the probe sequence from the home index of k up to i is empty.
C33_ProbeChainUnbroken ==
    Defined =>
        \A i \in Occupied(tab) :
            ProbePath(tab, hash(tab.items[i][1], tab.capacity, 0), i)
                \subseteq Occupied(tab)

\* C34: between two calls no two occupied slots hold equal keys.
C34_NoDuplicateKeys ==
    pc = "ready" =>
        \A i \in Occupied(tab), j \in Occupied(tab) :
            i # j => ~cmp(tab.items[i][1], tab.items[j][1])

\* C35: every lookup returns: index_of, find, at and the lookups of insert
\* and operator[] end for every key, and in a table whose slots are all
\* occupied a key that no slot holds is reported absent.
C35_LookupTerminates ==
    Defined =>
        \A k \in Keys \cup FillKeys :
            /\ \A r \in {index_of(tab, k, 0)} :
                  /\ r.st = "ok"
                  /\ (Holding(tab, k) = {} /\ Occupied(tab) = DOMAIN tab.items)
                        => ~r.first
            /\ find(tab, k, 0).st = "ok"
            /\ at(tab, k, 0).st \in {"ok", "throw"}
            /\ insert(tab, k, 0, 0).st = "ok"
            /\ find_or_insert(tab, k, 0).st = "ok"

\* C38: begin(), operator++, the range-based for loop, operator== and
\* erase(first, last) read has_value() only of slots 0..capacity-1: where
\* every read outside the array faults, none of them faults.
C38_IteratorsReadInside ==
    Defined =>
        /\ begin(tab, "fault").st = "ok"
        /\ \A it \in walk(tab, begin(tab, "benign").it) :
              increment(tab, it, "fault").st = "ok"
        /\ iterate(tab, "fault").st = "ok"
        /\ eq(tab, tab, FALSE, 0, "fault").st = "ok"
        /\ \A h \in HandleRanges(tab) :
              erase_range(tab, h[1], h[2], "fault").st # "fault"


\* C40: for a table of 2^n items, capacity 1 included, the shift of the
\* hasher is by 64 - n, which is less than 64, and the index of every key is
\* the mixed hash shifted right by 64 - n and lies in [0, capacity).
C40_ShiftBelowWordSize ==
    pc = "ready" /\ tab.capacity > 0 =>
        /\ countl_zero(tab.capacity) + 1 = 64 - (BitLen(tab.capacity) - 1)
        /\ countl_zero(tab.capacity) + 1 < 64
        /\ \A k \in Keys, ub \in ShiftOutcomes(tab) :
              /\ hash(k, tab.capacity, ub)
                    = Shr64(Mixed[k], 64 - (BitLen(tab.capacity) - 1))
              /\ hash(k, tab.capacity, ub) \in 0..(tab.capacity - 1)

\* ------------------------------------------- the C table of src/ht-hash.c

(***************************************************************************)
(* A C string is the sequence of its bytes before the terminating NUL; a   *)
(* char pointer is NULL or StrPtr(s), pointing at a copy of the string s.  *)
(* A table is a record [capacity, size, items]; items is a function from   *)
(* 0..capacity-1 to struct _ht_item records [key, value] of pointers.      *)
(* size, a size_t, is written by its two's complement representative: -1   *)
(* stands for 2^64 - 1.                                                    *)
(***************************************************************************)

NULL == <<>>
StrPtr(s) == <<s>>
\* a pointer whose string was passed to free
Freed == <<"freed">>

\* "key1", "key177", "key198": ht_hash maps all three to slot 61 of 64
Key1 == <<107, 101, 121, 49>>
Key177 == <<107, 101, 121, 49, 55, 55>>
Key198 == <<107, 101, 121, 49, 57, 56>>

\* the keys and values the callers of the C table use
HtKeys == {Key1, Key177, Key198}

\* the quote character, and a string of n of them
Quote == 34
Quotes(n) == [i \in 1..n |-> Quote]

\* the keys and values of the tables that are written as JSON: "a", "b" and
\* one quote, "bc" and ten quotes
JsonKeys == {<<97>>, <<98>>, Quotes(1)}
JsonValues == {<<98, 99>>, Quotes(10)}
HtValues == {"val0", "val1"}
\* the min_size arguments of ht_resize: old_cap + 1 of src/ht-test.c
HtSizes == {65}
\* min_size arguments of ht_resize for an array of one item and of four
HtSmallSizes == {1, 4}

HT_INITIAL_CAPACITY == 64
HT_PRIME == 151

\* the largest capacity a call may leave
HtMaxCap == 2 * HT_INITIAL_CAPACITY

\* ht_hash_table with its fields
MkHt(cap, size, its) == [capacity |-> cap, size |-> size, items |-> its]

\* ht_hash_table table = {0}, and what ht_new returns
HtZero == MkHt(0, 0, <<>>)

\* calloc(n, sizeof(struct _ht_item)): n items of null pointers
Calloc(n) == [i \in 0..(n - 1) |-> [key |-> NULL, value |-> NULL]]

\* a > b for two size_t written by their representatives
UGt(a, b) == IF (a < 0) = (b < 0) THEN a > b ELSE a < 0

\* a + b modulo 2^64 on words of eight bytes
AddMod64(a, b) ==
    LET RECURSIVE Carry(_)
        Carry(c) == IF c = 0 THEN 0
                    ELSE (a[c - 1] + b[c - 1] + Carry(c - 1)) \div 256
    IN [c \in 0..7 |-> (a[c] + b[c] + Carry(c)) % 256]

\* __builtin_ctz of a non-zero word
RECURSIVE ctz(_)
ctz(x) == IF x % 2 = 1 THEN 0 ELSE 1 + ctz(x \div 2)

\* strlen
strlen(s) == Len(s)

\* the byte at offset i of the string s, its terminating NUL included
CharAt(s, i) == IF i < Len(s) THEN s[i + 1] ELSE 0

\* strncmp(a, b, n) from offset i on: the difference of the first pair of
\* bytes that differ among the first n, 0 when there is none before n bytes
\* or before the end of both strings
RECURSIVE strncmp_from(_, _, _, _)
strncmp_from(a, b, n, i) ==
    IF i >= n THEN 0
    ELSE IF CharAt(a, i) # CharAt(b, i) THEN CharAt(a, i) - CharAt(b, i)
    ELSE IF CharAt(a, i) = 0 THEN 0
    ELSE strncmp_from(a, b, n, i + 1)

strncmp(a, b, n) == strncmp_from(a, b, n, 0)

\* the loop of ht_hash: hash += mult * s[i]; mult *= HT_PRIME, on words
RECURSIVE ht_hash_loop(_, _, _, _, _)
ht_hash_loop(s, len, i, hash_, mult) ==
    IF i >= len THEN hash_
    ELSE ht_hash_loop(s, len, i + 1,
                      AddMod64(hash_, MulMod64(mult, Limbs(CharAt(s, i)))),
                      MulMod64(mult, Limbs(HT_PRIME)))

\* hash * FIB_MULT of ht_hash for every key
HtMixed ==
    [s \in HtKeys \cup JsonKeys |->
        MulMod64(ht_hash_loop(s, strlen(s), 0, Limbs(0), Limbs(1)), FIB_MULT)]

\* ht_hash: the top log2(cap) bits of hash * FIB_MULT; ub is the outcome of
\* the shift when its count is 64 (cap = 1)
ht_hash(s, len, cap, ub) ==
    IF cap = 0 THEN 0
    ELSE LET shift == 64 - ctz(cap)
         IN IF shift >= 64 THEN ub ELSE Shr64(HtMixed[s], shift)

\* the loop of ht_find with the item at index to look at. The indices
\* repeat with period capacity, so a loop that met neither NULL nor the key
\* in capacity rounds meets none later: it ends with false when attempts
\* passes size << 1, after some 2^64 rounds when size has wrapped
RECURSIVE ht_find_loop(_, _, _, _, _)
ht_find_loop(ht, key, len, index, attempts) ==
    IF ht.items[index].key = NULL
    THEN [found |-> FALSE, index |-> index, st |-> "ok"]
    ELSE IF strncmp(ht.items[index].key[1], key, len) = 0
    THEN [found |-> TRUE, index |-> index, st |-> "ok"]
    ELSE IF UGt(attempts, ht.size * 2)
    THEN [found |-> FALSE, index |-> index, st |-> "ok"]
    ELSE IF attempts + 1 >= ht.capacity
    THEN [found |-> FALSE, index |-> index,
          st |-> IF ht.size < 0 THEN "hang" ELSE "ok"]
    ELSE ht_find_loop(ht, key, len,
                      BitAnd(index + attempts * 2 + 1, ht.capacity - 1),
                      attempts + 1)

\* ht_find: (true, index of the item) or false
ht_find(ht, key, ub) ==
    LET cap == ht.capacity
    IN IF cap = 0 THEN [found |-> FALSE, index |-> 0, st |-> "ok"]
       ELSE LET len == strlen(key)
                index == ht_hash(key, len, cap, ub)
            IN IF index \notin DOMAIN ht.items
               THEN [found |-> FALSE, index |-> index, st |-> "fault"]
               ELSE ht_find_loop(ht, key, len, index, 0)

\* the loop of ht_insert_inner: the first item without key on the probe
\* sequence index, index + 1, index + 4, index + 9, ... The indices repeat
\* with period cap, so cap rounds without such an item go on for ever
RECURSIVE ht_insert_inner_loop(_, _, _, _)
ht_insert_inner_loop(items, cap, index, attempts) ==
    IF items[index].key = NULL THEN [index |-> index, st |-> "ok"]
    ELSE IF attempts + 1 >= cap THEN [index |-> index, st |-> "hang"]
    ELSE ht_insert_inner_loop(items, cap,
                              BitAnd(index + attempts * 2 + 1, cap - 1),
                              attempts + 1)

\* ht_insert_inner: insert without checking for existing keys or testing
\* capacity
ht_insert_inner(items, cap, key, value, ub) ==
    IF cap = 0 THEN [items |-> items, st |-> "abort"]
    ELSE LET index == ht_hash(key[1], strlen(key[1]), cap, ub)
         IN IF index \notin DOMAIN items
            THEN [items |-> items, st |-> "fault"]
            ELSE LET r == ht_insert_inner_loop(items, cap, index, 0)
                 IN IF r.st # "ok" THEN [items |-> items, st |-> r.st]
                    ELSE [items |-> [items EXCEPT ![r.index] =
                                        [key |-> key, value |-> value]],
                          st |-> "ok"]

\* the loop of ht_resize_exact from old item i on; the items without key
\* up to the next item with a key are passed over in one step
RECURSIVE ht_resize_exact_loop(_, _, _, _, _, _)
ht_resize_exact_loop(old_items, old_cap, new_items, new_cap, i, ub) ==
    LET rest == {j \in i..(old_cap - 1) : old_items[j].key # NULL}
    IN IF rest = {} THEN [items |-> new_items, st |-> "ok"]
       ELSE LET n == CHOOSE j \in rest : \A l \in rest : j <= l
                r == ht_insert_inner(new_items, new_cap, old_items[n].key,
                                     old_items[n].value, ub)
            IN IF r.st # "ok" THEN [items |-> new_items, st |-> r.st]
               ELSE ht_resize_exact_loop(old_items, old_cap, r.items, new_cap,
                                         n + 1, ub)

\* ht_resize_exact: a new array of new_cap items, the items of the old one
\* inserted in it in index order
ht_resize_exact(ht, old_cap, new_cap, ub) ==
    LET r == ht_resize_exact_loop(ht.items, old_cap, Calloc(new_cap), new_cap, 0, ub)
    IN IF r.st # "ok" THEN [ht |-> ht, st |-> r.st]
       ELSE [ht |-> MkHt(new_cap, ht.size, r.items), st |-> "ok"]

\* "round up to next power of 2" of ht_resize: min_size - 1 smeared to the
\* right, plus one; 0 - 1 wraps to all ones and all ones + 1 wraps to 0
RoundUp(min_size) ==
    IF min_size = 0 THEN 0
    ELSE LET c0 == min_size - 1
             c1 == BitOr(c0, c0 \div 2)
             c2 == BitOr(c1, c1 \div 4)
             c3 == BitOr(c2, c2 \div 16)
             c4 == BitOr(c3, c3 \div 256)
             c5 == BitOr(c4, c4 \div 65536)
         IN c5 + 1

\* ht_resize
ht_resize(ht, min_size, ub) ==
    LET old_cap == ht.capacity
        new_cap == RoundUp(min_size)
    IN IF new_cap <= old_cap THEN [ht |-> ht, st |-> "ok"]
       ELSE ht_resize_exact(ht, old_cap, new_cap, ub)

\* ht_clear: every key and value and the array are freed, the struct is
\* zeroed
ht_clear(ht) == [ht |-> HtZero, st |-> "ok"]

\* "round up to next power of 2" of ht_shrink_to_fit for a size written by
\* its representative: a wrapped size minus one is smeared to all ones,
\* and all ones plus one wrap to 0
RoundUpSize(size) == IF size < 0 THEN 0 ELSE RoundUp(size)

\* ht_shrink_to_fit; calloc(0, ...) is taken to return an array of no item
ht_shrink_to_fit(ht, ub) ==
    LET old_cap == ht.capacity
        new_cap == RoundUpSize(ht.size)
    IN IF ht.size = 0 THEN ht_clear(ht)
       ELSE IF new_cap = old_cap THEN [ht |-> ht, st |-> "ok"]
       ELSE ht_resize_exact(ht, old_cap, new_cap, ub)

\* ht_insert_unique
ht_insert_unique(ht, key, value, ub) ==
    LET key_clone == StrPtr(key)
        val_clone == StrPtr(value)
        cap == ht.capacity
    IN IF cap = 0
       THEN LET idx == ht_hash(key, strlen(key), HT_INITIAL_CAPACITY, ub)
            IN [ht |-> MkHt(HT_INITIAL_CAPACITY, ht.size,
                            [Calloc(HT_INITIAL_CAPACITY) EXCEPT ![idx] =
                                [key |-> key_clone, value |-> val_clone]]),
                value |-> TRUE, st |-> "ok"]
       ELSE LET ht1 == [ht EXCEPT !.size = ht.size + 1]
            IN IF UGt(ht.size * 4, cap * 2 + cap)
               THEN Once(ht_resize_exact(ht1, cap, cap * 2, ub),
                         LAMBDA g :
                           IF g.st # "ok"
                           THEN [ht |-> g.ht, value |-> FALSE, st |-> g.st]
                           ELSE Once(ht_insert_inner(g.ht.items, cap * 2,
                                                     key_clone, val_clone, ub),
                                     LAMBDA r :
                                       [ht |-> [g.ht EXCEPT !.items = r.items],
                                        value |-> r.st = "ok", st |-> r.st]))
               ELSE Once(ht_insert_inner(ht1.items, cap, key_clone, val_clone, ub),
                         LAMBDA r :
                           [ht |-> [ht1 EXCEPT !.items = r.items],
                            value |-> r.st = "ok", st |-> r.st])

\* ht_insert
ht_insert(ht, key, value, ub) ==
    Once(ht_find(ht, key, ub),
         LAMBDA f :
           IF f.st # "ok" THEN [ht |-> ht, value |-> FALSE, st |-> f.st]
           ELSE IF f.found
           THEN [ht |-> [ht EXCEPT !.items[f.index].value = StrPtr(value)],
                 value |-> TRUE, st |-> "ok"]
           ELSE ht_insert_unique(ht, key, value, ub))

\* ht_contains
ht_contains(ht, key, ub) ==
    Once(ht_find(ht, key, ub), LAMBDA f : [value |-> f.found, st |-> f.st])

\* ht_search: the value pointer of the item ht_find names, or NULL
ht_search(ht, key, ub) ==
    Once(ht_find(ht, key, ub),
         LAMBDA f : [value |-> IF f.found THEN ht.items[f.index].value ELSE NULL,
                     st |-> f.st])

\* ht_remove
ht_remove(ht, key, ub) ==
    Once(ht_find(ht, key, ub),
         LAMBDA f :
           IF f.st # "ok" THEN [ht |-> ht, value |-> FALSE, st |-> f.st]
           ELSE IF f.found
           THEN [ht |-> [ht EXCEPT !.size = ht.size - 1,
                                   !.items[f.index].value = Freed,
                                   !.items[f.index].key = NULL],
                 value |-> TRUE, st |-> "ok"]
           ELSE [ht |-> ht, value |-> FALSE, st |-> "ok"])

\* ht_remove_get: the key is freed, the value pointer is returned and stays
\* in the item
ht_remove_get(ht, key, ub) ==
    Once(ht_find(ht, key, ub),
         LAMBDA f :
           IF f.st # "ok" THEN [ht |-> ht, value |-> NULL, st |-> f.st]
           ELSE IF f.found
           THEN [ht |-> [ht EXCEPT !.size = ht.size - 1,
                                   !.items[f.index].key = NULL],
                 value |-> ht.items[f.index].value, st |-> "ok"]
           ELSE [ht |-> ht, value |-> NULL, st |-> "ok"])

\* ------------------------------------------------------------------- JSON

\* the pairs ht_iter_next_pair yields from item i on: the items that hold a
\* key, in index order
RECURSIVE ht_iter_pairs(_, _)
ht_iter_pairs(ht, i) ==
    LET rest == {j \in i..(ht.capacity - 1) : ht.items[j].key # NULL}
    IN IF rest = {} THEN <<>>
       ELSE LET n == CHOOSE j \in rest : \A l \in rest : j <= l
            IN <<ht.items[n]>> \o ht_iter_pairs(ht, n + 1)

\* the loop "while (need > cap) cap *= 2" that grows the buffer by realloc
RECURSIVE json_grow(_, _)
json_grow(cap, need) == IF need > cap THEN json_grow(cap * 2, need) ELSE cap

\* the bytes written for s with a backslash before every quote
RECURSIVE json_escape(_)
json_escape(s) ==
    IF s = <<>> THEN <<>>
    ELSE (IF Head(s) = Quote THEN <<92, Quote>> ELSE <<Head(s)>>)
         \o json_escape(Tail(s))

\* the loop over the pairs of ht_json_stringify (escaped = FALSE) and of
\* ht_json_stringify_escape (escaped = TRUE): b holds the capacity cap of
\* the buffer and the bytes buf[0..pos-1] written
RECURSIVE json_pairs_loop(_, _, _)
json_pairs_loop(pairs, b, escaped) ==
    IF pairs = <<>> THEN b
    ELSE LET key == Head(pairs).key[1]
             val == Head(pairs).value[1]
             pos == Len(b.buf)
             mult == IF escaped THEN 2 ELSE 1
             esc(x) == IF escaped THEN json_escape(x) ELSE x
             cap == json_grow(b.cap, pos + strlen(key) * mult
                                         + strlen(val) * mult + 6)
         IN json_pairs_loop(Tail(pairs),
                [cap |-> cap,
                 buf |-> b.buf \o <<Quote>> \o esc(key) \o <<Quote, 58, Quote>>
                               \o esc(val) \o <<Quote, 44>>],
                escaped)

\* the end of both functions: the last comma, or index 1 of an empty
\* object, becomes the closing brace and a NUL is stored after it; st is
\* "overflow" when the NUL is stored at index cap, past the buffer
json_close(b) ==
    LET pos == IF Len(b.buf) = 1 THEN 2 ELSE Len(b.buf)
    IN [value |-> pos,
        out |-> SubSeq(b.buf, 1, pos - 1) \o <<125>>,
        cap |-> b.cap,
        st |-> IF pos < b.cap THEN "ok" ELSE "overflow"]

\* ht_json_stringify with a non-null out
ht_json_stringify(ht) ==
    LET cap == ht.size * 20 + 5
    IN IF ~UGt(cap, ht.size)
       THEN [value |-> 0, out |-> <<>>, cap |-> cap, st |-> "abort"]
       ELSE json_close(json_pairs_loop(ht_iter_pairs(ht, 0),
                                       [cap |-> cap, buf |-> <<123>>],
                                       FALSE))

\* ht_json_stringify_escape with a non-null out
ht_json_stringify_escape(ht) ==
    LET cap == ht.size * 24 + 5
    IN IF ~UGt(cap, ht.size)
       THEN [value |-> 0, out |-> <<>>, cap |-> cap, st |-> "abort"]
       ELSE json_close(json_pairs_loop(ht_iter_pairs(ht, 0),
                                       [cap |-> cap, buf |-> <<123>>],
                                       TRUE))

\* ---------------------------------------------------- state of the C table

(***************************************************************************)
(* In the runs of the C table tab is the ht_hash_table the calls act on,   *)
(* shadow maps every key to the value pointer of its latest ht_insert or   *)
(* ht_insert_unique, NULL once ht_remove was called for it, and pc is the  *)
(* outcome of the calls so far.                                            *)
(***************************************************************************)

HtEmptyMap == [k \in HtKeys |-> NULL]

InitHt ==
    /\ tab = HtZero
    /\ shadow = HtEmptyMap
    /\ pc = "ready"

\* the outcomes of the shift in ht_hash for the table ht
HtShiftOutcomes(ht) == IF ht.capacity = 1 THEN ShiftUB ELSE {0}

\* the calls are defined: no shift by 64
HtDefined == pc = "ready" /\ tab.capacity # 1

\* a call that ended with outcome st; the runs stop at HtMaxCap items and
\* at a size of MaxLen, or of MaxLen below zero once it has wrapped
HtStep(st, ht1, m1) ==
    /\ pc = "ready"
    /\ st = "ok" => /\ ht1.capacity <= HtMaxCap
                    /\ ht1.size <= MaxLen
                    /\ ht1.size >= 0 - MaxLen
    /\ pc' = IF st = "ok" THEN "ready" ELSE st
    /\ tab' = IF st = "ok" THEN ht1 ELSE HtZero
    /\ shadow' = IF st = "ok" THEN m1 ELSE HtEmptyMap

\* ht_insert(&table, k, v)
HtInsert(k, v) ==
    \E ub \in HtShiftOutcomes(tab) :
        \E r \in {ht_insert(tab, k, v, ub)} :
            HtStep(r.st, r.ht, [shadow EXCEPT ![k] = StrPtr(v)])

\* ht_insert_unique(&table, k, v) for a key that is not in the table
HtInsertUnique(k, v) ==
    /\ shadow[k] = NULL
    /\ \E ub \in HtShiftOutcomes(tab) :
          \E r \in {ht_insert_unique(tab, k, v, ub)} :
              HtStep(r.st, r.ht, [shadow EXCEPT ![k] = StrPtr(v)])

\* ht_remove(&table, k)
HtRemove(k) ==
    \E ub \in HtShiftOutcomes(tab) :
        \E r \in {ht_remove(tab, k, ub)} :
            HtStep(r.st, r.ht, [shadow EXCEPT ![k] = NULL])

\* ht_resize(&table, m)
HtResize(m) ==
    \E ub \in HtShiftOutcomes(tab) :
        \E r \in {ht_resize(tab, m, ub)} :
            HtStep(r.st, r.ht, shadow)

\* ht_remove_get(&table, k)
HtRemoveGet(k) ==
    \E ub \in HtShiftOutcomes(tab) :
        \E r \in {ht_remove_get(tab, k, ub)} :
            HtStep(r.st, r.ht, [shadow EXCEPT ![k] = NULL])

\* the outcomes of the shift in ht_hash when ht_shrink_to_fit moves the
\* items of ht to an array of one item
HtShrinkOutcomes(ht) == IF RoundUpSize(ht.size) = 1 THEN ShiftUB ELSE {0}

\* ht_shrink_to_fit(&table)
HtShrinkToFit ==
    \E ub \in HtShrinkOutcomes(tab) :
        \E r \in {ht_shrink_to_fit(tab, ub)} :
            HtStep(r.st, r.ht, shadow)

\* ht_clear(&table)
HtClear ==
    /\ pc = "ready"
    /\ \E r \in {ht_clear(tab)} :
          HtStep(r.st, r.ht, HtEmptyMap)

NextHt ==
    \/ \E k \in HtKeys, v \in HtValues : HtInsert(k, v)
    \/ \E k \in HtKeys, v \in HtValues : HtInsertUnique(k, v)
    \/ \E k \in HtKeys : HtRemove(k)
    \/ \E m \in HtSizes : HtResize(m)

\* every call that changes the table, all values being "val0"
NextHtAll ==
    \/ \E k \in HtKeys : HtInsert(k, "val0")
    \/ \E k \in HtKeys : HtInsertUnique(k, "val0")
    \/ \E k \in HtKeys : HtRemove(k)
    \/ \E k \in HtKeys : HtRemoveGet(k)
    \/ \E m \in HtSizes \cup HtSmallSizes : HtResize(m)
    \/ HtShrinkToFit
    \/ HtClear

\* What the store of a byte one past the buffer (undefined behaviour) leads
\* to: the call returns, or the access faults.
WriteUB == {"ok", "fault"}

\* a call of a JSON function that ended with st; the table is unchanged
JsonStep(st) ==
    /\ pc = "ready"
    /\ \E o \in (IF st = "overflow" THEN WriteUB ELSE {st}) :
          pc' = IF o = "ok" THEN "ready" ELSE o
    /\ UNCHANGED <<tab, shadow>>

\* ht_json_stringify(&table, &out)
JsonStringify ==
    /\ pc = "ready"
    /\ JsonStep(ht_json_stringify(tab).st)

\* ht_json_stringify_escape(&table, &out)
JsonStringifyEscape ==
    /\ pc = "ready"
    /\ JsonStep(ht_json_stringify_escape(tab).st)

InitJson ==
    /\ tab = HtZero
    /\ shadow = [k \in JsonKeys |-> NULL]
    /\ pc = "ready"

NextJson ==
    \/ \E k \in JsonKeys, v \in JsonValues : HtInsert(k, v)
    \/ \E k \in JsonKeys : HtRemove(k)
    \/ \E m \in HtSizes : HtResize(m)
    \/ JsonStringify
    \/ JsonStringifyEscape

\* tables of short keys and values written as JSON
SpecJson == InitJson /\ [][NextJson]_vars

\* insertions, removals and growth of a zero-initialised table
SpecHt == InitHt /\ [][NextHt]_vars

\* the calls of the C table on a zero-initialised table
SpecHtAll == InitHt /\ [][NextHtAll]_vars

\* ----------------------------------------------- properties of the C table

\* the indices of the items of ht that hold a key
HtOccupied(ht) == {i \in DOMAIN ht.items : ht.items[i].key # NULL}

\* C29: every key inserted and not removed since is contained and ht_search
\* returns the value of its latest insertion; ht_insert of a present key
\* replaces its value and adds no entry.
C29_InsertedKeysAreFound ==
    HtDefined =>
        \A k \in HtKeys :
            shadow[k] # NULL =>
                /\ ht_contains(tab, k, 0).value
                /\ ht_search(tab, k, 0).value = shadow[k]
                /\ \A v \in HtValues :
                      \A r \in {ht_insert(tab, k, v, 0)} :
                          /\ r.st = "ok" /\ r.value
                          /\ HtOccupied(r.ht) = HtOccupied(tab)
                          /\ ht_search(r.ht, k, 0).value = StrPtr(v)

\* C30: ht_search and ht_contains match exactly the key asked for: an item
\* found holds a key equal to k, and for a key never inserted or removed
\* since ht_contains is false and ht_search returns NULL.
C30_SearchMatchesExactKey ==
    HtDefined =>
        \A k \in HtKeys :
            \A f \in {ht_find(tab, k, 0)} :
                /\ f.st = "ok"
                /\ f.found => tab.items[f.index].key = StrPtr(k)
                /\ shadow[k] = NULL =>
                      /\ ~ht_contains(tab, k, 0).value
                      /\ ht_search(tab, k, 0).value = NULL

\* C31: ht_shrink_to_fit returns, leaves the smallest power-of-two capacity
\* that holds the stored items, and every key ht_search found before the
\* call is found with the same value after it.
C31_ShrinkToFitKeepsItems ==
    HtDefined =>
        \A r \in {ht_shrink_to_fit(tab, 0)} :
            /\ r.st = "ok"
            /\ r.ht.capacity = RoundUp(Cardinality(HtOccupied(tab)))
            /\ \A k \in HtKeys :
                  \A before \in {ht_search(tab, k, 0)} :
                      before.value # NULL =>
                          ht_search(r.ht, k, 0).value = before.value

\* some item of ht holds exactly the key k
HtHolds(ht, k) == \E i \in HtOccupied(ht) : ht.items[i].key = StrPtr(k)

\* C32: ht_remove(k) returns true exactly when k is in the table, k is not
\* contained afterwards, every other key ht_search found before is found
\* with the same value, and for an absent k the table is unmodified.
C32_RemoveChangesOnlyKey ==
    HtDefined =>
        \A k \in HtKeys :
            \A r \in {ht_remove(tab, k, 0)} :
                /\ r.st = "ok"
                /\ r.value = HtHolds(tab, k)
                /\ ~ht_contains(r.ht, k, 0).value
                /\ \A j \in HtKeys \ {k} :
                      \A before \in {ht_search(tab, j, 0)} :
                          before.value # NULL =>
                              ht_search(r.ht, j, 0).value = before.value
                /\ ~HtHolds(tab, k) => r.ht = tab

\* C36: between two calls the size field is the number of items that hold
\* a key, and it has not wrapped below zero.
C36_SizeCountsItems ==
    pc = "ready" =>
        /\ tab.size = Cardinality(HtOccupied(tab))
        /\ tab.size >= 0

\* C37: ht_insert_inner finds an item without key whenever the array has
\* one, so ht_insert and ht_insert_unique return when the array they store
\* in has room, ht_resize returns, and ht_shrink_to_fit returns when the
\* array it moves to has room for the items.
C37_InsertInnerTerminates ==
    (HtDefined /\ tab.capacity > 0) =>
        /\ \A k \in HtKeys :
              HtOccupied(tab) # DOMAIN tab.items =>
                  /\ ht_insert_inner(tab.items, tab.capacity, StrPtr(k),
                                     StrPtr("val0"), 0).st = "ok"
                  /\ ht_insert(tab, k, "val0", 0).st = "ok"
                  /\ ht_insert_unique(tab, k, "val0", 0).st = "ok"
        /\ \A m \in HtSizes \cup HtSmallSizes : ht_resize(tab, m, 0).st = "ok"
        /\ Cardinality(HtOccupied(tab)) <= RoundUpSize(tab.size) =>
              ht_shrink_to_fit(tab, 0).st = "ok"

\* C39: ht_json_stringify and ht_json_stringify_escape store every byte,
\* the closing brace and the terminating NUL included, at an index below
\* the size of the buffer.
C39_JsonWritesInsideBuffer ==
    pc = "ready" =>
        /\ \A r \in {ht_json_stringify(tab)} :
              r.st # "abort" => r.st = "ok" /\ r.value < r.cap
        /\ \A r \in {ht_json_stringify_escape(tab)} :
              r.st # "abort" => r.st = "ok" /\ r.value < r.cap

====
